---- MODULE Spec2Model ----
(***************************************************************************)
(* FoxOSC: the OSC transport / listener registry (src/src/osc_manager.rs), *)
(* the console log (src/src/console.rs), the guest ABI host functions and  *)
(* the plugin lifecycle (src/src/wasm_loader.rs) and the plugin settings   *)
(* store (src/src/config.rs).                                              *)
(***************************************************************************)
EXTENDS Integers, Sequences, FiniteSets, TLC

\* ------------------------------------------------------------------ bounds
\* At most this many registrations in the whole registry.
MaxListeners == 2
\* At most this many arguments in one received Message.
MaxArgs == 2
\* At most this many packets (Messages and Bundles, nested ones counted) in
\* one received Bundle, itself included.
MaxNodes == 4
\* An operation that logs starts with at most this many entries in the log
\* (max_entries, 1000, is never reached).
MaxBacklog == 0
\* Guest linear memory is MemLen bytes long (memory.data(..).len(); whole
\* 64 KiB pages in a real instance).
MemLen == 16
\* The offset load_config writes a value to (write_pos, 2048 in the source),
\* scaled with the memory.
config_write_pos == 8
\* The guest passes values of up to this many bytes.
MaxValueLen == 5
\* send_ui_event's write_pos (1024 in the code), scaled with the memory.
event_write_pos == 4
\* The UI sends events of up to this many bytes.
MaxEventLen == 12

\* --------------------------------------------------------------- constants
\* ConsoleLog::new: max_entries
max_entries == 1000
\* i32::MAX, the largest pointer or length a guest can pass
I32Max == 2147483647
I32Min == -I32Max - 1

VARIABLES
    \* OscManager.listeners: address -> Vec<MessageCallback>; an address with
    \* no HashMap entry is not in the DOMAIN.
    listeners,
    \* ConsoleLog.enabled
    enabled,
    \* ConsoleLog.entries
    entries,
    \* ConsoleLog.active_addresses: address -> value text; partial
    active_addresses,
    \* the operation that ran last and its input
    op,
    \* what the last operation did, in order: callback invocations and
    \* console calls
    trace,
    \* the guest's linear memory: memory[a + 1] is the byte at address a
    memory,
    \* Config.plugins: plugin name -> settings (key -> value); partial maps
    plugins,
    \* "running", or "panicked" once a panic has left a host function
    host,
    \* what the last operation returned
    ret,
    \* per key passed to save_config, the value bytes the guest passed last
    saved,
    \* WasmPlugin.running
    running,
    \* the entry points the guest module exports
    exports,
    \* the guest lifecycle entry point that returned successfully last
    last_ok,
    \* how many times the plugin's module has been instantiated
    instances,
    \* WasmPlugin.instance: the number of the instantiation it holds, 0 before
    \* the plugin is loaded
    instance,
    \* per thread, the steps it has still to take in the operation it is in
    \* and the lock guards it holds
    threads,
    \* WasmPluginLoader.plugins: the loaded plugins, in the order pushed
    loaded,
    \* the statics of the Boop Counter guest (boop-counter-plugin/src/lib.rs)
    guest,
    \* SystemTime::now() in seconds since the epoch, as read last
    clock,
    \* ConsoleLog.last_displayed_count
    last_displayed_count,
    \* history: every entry pushed to the log so far (logged), the
    \* concatenation of the slices get_new_entries has returned (shown), the
    \* boop input delivered last (input), the false-to-true transitions
    \* delivered to the running plugin since its last tick (edges) and
    \* between its last two ticks (ticked), the times the last boop and the
    \* one before it were counted at (counted_at, counted_before, 0 for
    \* none) and the number of ticks so far (ticks)
    history

oscVars == <<listeners, enabled, entries, active_addresses, op, trace>>
pluginVars == <<memory, plugins, host, ret, saved, running, exports>>
auxVars == <<last_ok, instances, instance, threads, loaded, guest, clock,
            last_displayed_count, history>>

\* the receive thread of OscManager::new and the thread that calls the API
Threads == {"receive", "caller"}
\* nothing logged, nothing shown
NoHistory ==
    [logged |-> << >>, shown |-> << >>, input |-> FALSE, edges |-> 0,
     ticked |-> 0, counted_at |-> 0, counted_before |-> 0, ticks |-> 0]

\* no thread is inside an operation
Idle == [t \in Threads |-> [todo |-> << >>, holds |-> << >>, guest |-> "none"]]

\* the statics of the Boop Counter guest as its module is instantiated
BoopStatics ==
    [RUNNING |-> FALSE, LAST_BOOP_STATE |-> FALSE, TODAY_BOOPS |-> 0,
     TOTAL_BOOPS |-> 0, LAST_CHATBOX_SEND |-> 0, TICK_COUNT |-> 0,
     PENDING_BOOP |-> FALSE, LAST_BOOP_TIMESTAMP |-> 0, BOOP_INPUT |-> << >>,
     SEND_MSG_FLAG |-> FALSE, RESET_TODAY_FLAG |-> FALSE]

\* ------------------------------------------------------------------ values
\* the OSC addresses that are received or listened to
Addrs == {"/avatar/parameters/OSCBoop", "/avatar/parameters/Other"}
\* the callback closures that may be registered
Callbacks == {"cb1", "cb2"}

\* rosc::OscType values in use; v is the payload (a float in hundredths)
ArgPool ==
    << [ty |-> "Bool", v |-> 1], [ty |-> "Float", v |-> 25],
       [ty |-> "Bool", v |-> 0], [ty |-> "Float", v |-> 100] >>

\* the argument lists of the received messages: the first n of the pool
ArgLists == { SubSeq(ArgPool, 1, n) : n \in 0..MaxArgs }

Messages == [kind : {"Message"}, addr : Addrs, args : ArgLists]

SeqsUpTo(S, n) == UNION { [1..k -> S] : k \in 0..n }

\* leaves inside bundles carry one argument list per address
BundleLeaves == { m \in Messages : m.args = SubSeq(ArgPool, 1, 1) }

\* rosc::OscPacket: the packets of exactly n nodes, and the bundle contents
\* (Vec<OscPacket>) of exactly n nodes in all
RECURSIVE PacketsOfSize(_)
RECURSIVE ContentsOfSize(_)
PacketsOfSize(n) ==
    IF n < 1 THEN {}
    ELSE (IF n = 1 THEN BundleLeaves ELSE {}) \cup
         { [kind |-> "Bundle", content |-> c] : c \in ContentsOfSize(n - 1) }

ContentsOfSize(n) ==
    IF n = 0 THEN { << >> }
    ELSE UNION { { <<p>> \o c : p \in PacketsOfSize(k),
                                c \in ContentsOfSize(n - k) } : k \in 1..n }

Bundles == UNION { PacketsOfSize(n) : n \in 1..MaxNodes } \ BundleLeaves

\* every registry with at most MaxListeners registrations
Registries ==
    LET lists == SeqsUpTo(Callbacks, MaxListeners) \ { << >> }
        maps == UNION { [D -> lists] : D \in SUBSET Addrs }
        RECURSIVE Sum(_, _)
        Sum(m, S) == IF S = {} THEN 0
                     ELSE LET a == CHOOSE x \in S : TRUE
                          IN  Len(m[a]) + Sum(m, S \ {a})
    IN  { m \in maps : Sum(m, DOMAIN m) <= MaxListeners }

\* ------------------------------------------------------------- ConsoleLog
\* entries.push(e); if entries.len() > max_entries { entries.remove(0) }
PushEntry(es, e) ==
    LET a == Append(es, e)
    IN  IF Len(a) > max_entries THEN Tail(a) ELSE a

\* HashMap::insert
MapInsert(m, k, val) ==
    [x \in (DOMAIN m) \cup {k} |-> IF x = k THEN val ELSE m[x]]

\* Mutant of MapRemove: the key stays, with nothing stored under it.
MapRemoveKeepKey(m, k) == [x \in DOMAIN m |-> IF x = k THEN << >> ELSE m[x]]

\* HashMap::remove
MapRemove(m, k) == [x \in (DOMAIN m) \ {k} |-> m[x]]

EmptyMap == [x \in {} |-> 0]

\* The console as a record c = [entries, active_addresses]; enabled is read
\* from the state, no call below changes it.
log_info(c, message) ==
    IF ~enabled THEN c
    ELSE [c EXCEPT !.entries = PushEntry(@, [kind |-> "Info", text |-> message])]

log_error(c, message) ==
    IF ~enabled THEN c
    ELSE [c EXCEPT !.entries = PushEntry(@, [kind |-> "Error", text |-> message])]

log_osc_sent(c, address, value) ==
    IF ~enabled THEN c
    ELSE [c EXCEPT !.entries = PushEntry(@, [kind |-> "OscSent",
                                             address |-> address, value |-> value])]

log_osc_received(c, address, value) ==
    IF ~enabled THEN c
    ELSE [c EXCEPT
            !.active_addresses = MapInsert(@, address, value),
            !.entries = PushEntry(@, [kind |-> "OscReceived",
                                      address |-> address, value |-> value])]

\* Mutant of update_active_address: the unlistened value is logged as well.
update_active_address_logged(c, address, value) ==
    [c EXCEPT
        !.active_addresses = MapInsert(@, address, value),
        !.entries = IF enabled
                    THEN PushEntry(@, [kind |-> "OscReceived",
                                       address |-> address, value |-> value])
                    ELSE @]

update_active_address(c, address, value) ==
    [c EXCEPT !.active_addresses = MapInsert(@, address, value)]

\* format!("{:?}", msg.args): each argument rendered as Variant(payload), in
\* order
DebugFormat(args) == [i \in 1..Len(args) |-> <<args[i].ty, args[i].v>>]

\* ------------------------------------------------------------- OscManager
\* callback(&msg.addr, arg): one invocation, as recorded in the trace
Invoke(callback, addr, arg) ==
    [ev |-> "callback", cb |-> callback, addr |-> addr, arg |-> arg]

\* Mutant of ForCallbacks: a callback registered twice is invoked once.
RECURSIVE ForCallbacksDedup(_, _, _, _, _)
ForCallbacksDedup(callbacks, i, addr, arg, tr) ==
    IF i > Len(callbacks) THEN tr
    ELSE ForCallbacksDedup(callbacks, i + 1, addr, arg,
            IF \E k \in 1..(i - 1) : callbacks[k] = callbacks[i] THEN tr
            ELSE Append(tr, Invoke(callbacks[i], addr, arg)))

\* for callback in callbacks { ... }, from the i-th callback on
RECURSIVE ForCallbacks(_, _, _, _, _)
ForCallbacks(callbacks, i, addr, arg, tr) ==
    IF i > Len(callbacks) THEN tr
    ELSE ForCallbacks(callbacks, i + 1, addr, arg,
                      Append(tr, Invoke(callbacks[i], addr, arg)))

\* for arg in &msg.args { ... }, from the j-th argument on
RECURSIVE ForArgs(_, _, _, _)
ForArgs(msg, j, callbacks, tr) ==
    IF j > Len(msg.args) THEN tr
    ELSE ForArgs(msg, j + 1, callbacks,
                 ForCallbacks(callbacks, 1, msg.addr, msg.args[j], tr))

\* Mutant of DispatchCalls: the loops nested the other way round, every
\* argument to the first listener before the second listener sees any.
RECURSIVE DispatchListenerMajor(_, _, _)
DispatchListenerMajor(msg, callbacks, tr) ==
    IF callbacks = << >> THEN tr
    ELSE DispatchListenerMajor(msg, Tail(callbacks),
                               ForArgs(msg, 1, <<Head(callbacks)>>, tr))

DispatchCalls(msg, callbacks, tr) == ForArgs(msg, 1, callbacks, tr)

\* w = [console |-> [entries, active_addresses], trace]
handle_message(msg, w) ==
    LET value_str == DebugFormat(msg.args)
    IN  IF msg.addr \in DOMAIN listeners
        THEN [console |-> log_osc_received(w.console, msg.addr, value_str),
              trace |-> Append(DispatchCalls(msg, listeners[msg.addr], w.trace),
                               [ev |-> "log_osc_received", addr |-> msg.addr,
                                value |-> value_str])]
        ELSE [console |-> update_active_address(w.console, msg.addr, value_str),
              trace |-> Append(w.trace,
                               [ev |-> "update_active_address",
                                addr |-> msg.addr, value |-> value_str])]

RECURSIVE handle_packet(_, _)
RECURSIVE handle_bundle(_, _, _)
\* Mutant of handle_bundle: the Messages directly inside a Bundle are handled
\* before the Bundles nested in it.
handle_bundle_messages_first(content, i, w) ==
    LET msgs == SelectSeq(content, LAMBDA q : q.kind = "Message")
        rest == SelectSeq(content, LAMBDA q : q.kind = "Bundle")
        RECURSIVE Each(_, _, _)
        Each(c, k, x) == IF k > Len(c) THEN x
                         ELSE Each(c, k + 1, handle_packet(c[k], x))
    IN  Each(rest, 1, Each(msgs, 1, w))

handle_bundle(content, i, w) ==
    IF i > Len(content) THEN w
    ELSE handle_bundle(content, i + 1, handle_packet(content[i], w))

handle_packet(packet, w) ==
    IF packet.kind = "Message" THEN handle_message(packet, w)
    ELSE handle_bundle(packet.content, 1, w)

NumRegistered ==
    LET RECURSIVE Sum(_)
        Sum(S) == IF S = {} THEN 0
                  ELSE LET a == CHOOSE x \in S : TRUE
                       IN  Len(listeners[a]) + Sum(S \ {a})
    IN  Sum(DOMAIN listeners)

Console == [entries |-> entries, active_addresses |-> active_addresses]

\* The log is followed while it is short.
LogHasRoom == enabled => Len(entries) <= MaxBacklog

\* receive_loop: one datagram decoded to `packet` and handled
Receive(packet) ==
    /\ LogHasRoom
    /\ LET w == handle_packet(packet, [console |-> Console, trace |-> << >>])
       IN  /\ entries' = w.console.entries
           /\ active_addresses' = w.console.active_addresses
           /\ trace' = w.trace
    /\ op' = [name |-> "handle_packet", packet |-> packet]
    /\ UNCHANGED <<listeners, enabled, pluginVars, auxVars>>

register_listener(address, callback) ==
    /\ NumRegistered < MaxListeners
    /\ LogHasRoom
    /\ listeners' =
         IF address \in DOMAIN listeners
         THEN [listeners EXCEPT ![address] = Append(@, callback)]
         ELSE MapInsert(listeners, address, <<callback>>)
    /\ entries' = log_info(Console, <<"Registered OSC listener for: {}", address>>).entries
    /\ op' = [name |-> "register_listener", addr |-> address]
    /\ trace' = << >>
    /\ UNCHANGED <<enabled, active_addresses, pluginVars, auxVars>>

unregister_all_listeners(address) ==
    /\ LogHasRoom
    /\ listeners' = MapRemove(listeners, address)
    /\ entries' = log_info(Console, <<"Unregistered OSC listeners for: {}", address>>).entries
    /\ op' = [name |-> "unregister_all_listeners", addr |-> address]
    /\ trace' = << >>
    /\ UNCHANGED <<enabled, active_addresses, pluginVars, auxVars>>

set_enabled(b) ==
    /\ enabled' = b
    /\ op' = [name |-> "set_enabled"]
    /\ trace' = << >>
    /\ UNCHANGED <<listeners, entries, active_addresses, pluginVars, auxVars>>

clear ==
    /\ entries' = << >>
    /\ op' = [name |-> "clear"]
    /\ trace' = << >>
    /\ UNCHANGED <<listeners, enabled, active_addresses, pluginVars, auxVars>>

\* no plugin loaded: nothing in guest memory, no setting stored
NoPlugin ==
    /\ memory = [a \in 1..MemLen |-> 0]
    /\ plugins = EmptyMap
    /\ host = "running"
    /\ ret = [kind |-> "none"]
    /\ saved = EmptyMap
    /\ running = FALSE
    /\ exports = {}
    /\ last_ok = "none"
    /\ instances = 0
    /\ instance = 0
    /\ threads = Idle
    /\ loaded = << >>
    /\ guest = BoopStatics
    /\ clock = 0
    /\ last_displayed_count = 0
    /\ history = NoHistory

OscInit ==
    /\ listeners = EmptyMap
    /\ enabled \in BOOLEAN
    /\ entries = << >>
    /\ active_addresses = EmptyMap
    /\ op = [name |-> "new"]
    /\ trace = << >>
    /\ NoPlugin

ReceiveMessageAny == \E p \in Messages : Receive(p)
ReceiveBundleAny == \E p \in Bundles : Receive(p)
RegisterAny == \E a \in Addrs, c \in Callbacks : register_listener(a, c)
UnregisterAny == \E a \in Addrs : unregister_all_listeners(a)
SetEnabledAny == \E b \in BOOLEAN : set_enabled(b)

\* Registration, console switching and single Messages.  Removing an entry
\* (UnregisterAny) leads to no registry that registration does not build.
OscNext ==
    \/ ReceiveMessageAny
    \/ RegisterAny
    \/ SetEnabledAny
    \/ clear

\* a registry built by earlier register_listener calls, the console as new
BundleInit ==
    /\ listeners \in Registries
    /\ enabled \in BOOLEAN
    /\ entries = << >>
    /\ active_addresses = EmptyMap
    /\ op = [name |-> "new"]
    /\ trace = << >>
    /\ NoPlugin

\* the first datagram after construction is a Bundle
BundleNext == op.name = "new" /\ ReceiveBundleAny

vars == <<oscVars, pluginVars, auxVars>>

\* ==================================================================
\* Guest ABI: the host functions of WasmPlugin::add_host_functions
\* ==================================================================

\* PluginState.plugin_name of the loaded plugin
plugin_name == "Boop Counter"

\* Bytes are 0..255.  Guest data holds "A", "B" and 0xFF (never valid in
\* UTF-8); U+FFFD is EF BF BD.  No other byte of 0x80..0xFF occurs in memory.
ReplacementChar == <<239, 191, 189>>
IsContinuation(b) == b >= 128 /\ b <= 191

\* String::from_utf8_lossy(bytes).to_string(), as the UTF-8 bytes of the
\* result: every maximal invalid part becomes U+FFFD
RECURSIVE from_utf8_lossy(_)
from_utf8_lossy(b) ==
    IF b = << >> THEN << >>
    ELSE IF b[1] < 128 THEN <<b[1]>> \o from_utf8_lossy(Tail(b))
    ELSE IF b[1] = 239 /\ Len(b) >= 2 /\ IsContinuation(b[2])
         THEN IF Len(b) >= 3 /\ IsContinuation(b[3])
              THEN SubSeq(b, 1, 3) \o from_utf8_lossy(SubSeq(b, 4, Len(b)))
              ELSE ReplacementChar \o from_utf8_lossy(SubSeq(b, 3, Len(b)))
    ELSE ReplacementChar \o from_utf8_lossy(Tail(b))

\* key_ptr + key_len on i32 leaves the i32 range (a panic in a debug build,
\* wrapped in a release build)
AddOverflows(a, b) ==
    \/ b > 0 /\ a > I32Max - b
    \/ b < 0 /\ a < I32Min - b

\* the wrapped i32 sum
WrappingAdd(a, b) ==
    IF b > 0 /\ a > I32Max - b THEN (a - I32Max - 1) + (b - I32Max - 1)
    ELSE IF b < 0 /\ a < I32Min - b THEN (a + I32Max + 1) + (b + I32Max + 1)
    ELSE a + b

\* &data[ptr as usize..(ptr + len) as usize]: a negative i32 becomes a usize
\* above every memory length, and the index panics unless
\* start <= end <= data.len()
Slice(data, ptr, len) ==
    LET end == WrappingAdd(ptr, len)
    IN  IF \/ AddOverflows(ptr, len)
           \/ ptr < 0
           \/ end < 0
           \/ ptr > end
           \/ end > Len(data)
        THEN [panic |-> TRUE, bytes |-> << >>]
        ELSE [panic |-> FALSE, bytes |-> SubSeq(data, ptr + 1, end)]

\* len.to_le_bytes() of a u32
to_le_bytes(n) ==
    << n % 256, (n \div 256) % 256, (n \div 65536) % 256,
       (n \div 16777216) % 256 >>

\* data[pos..pos + bytes.len()].copy_from_slice(bytes)
CopyFromSlice(data, pos, bytes) ==
    IF pos + Len(bytes) > Len(data)
    THEN [panic |-> TRUE, data |-> data]
    ELSE [panic |-> FALSE,
          data |-> [i \in 1..Len(data) |->
                      IF i > pos /\ i <= pos + Len(bytes)
                      THEN bytes[i - pos] ELSE data[i]]]

\* Config::get_plugin_setting
get_plugin_setting(cfg, name, key) ==
    IF name \in DOMAIN cfg /\ key \in DOMAIN cfg[name]
    THEN [some |-> TRUE, value |-> cfg[name][key]]
    ELSE [some |-> FALSE, value |-> << >>]

\* Mutant of set_plugin_setting: a key that is stored keeps its value.
set_plugin_setting_keep_first(cfg, name, key, value) ==
    LET settings == IF name \in DOMAIN cfg THEN cfg[name] ELSE EmptyMap
    IN  MapInsert(cfg, name,
                  IF key \in DOMAIN settings THEN settings
                  ELSE MapInsert(settings, key, value))

\* Config::set_plugin_setting
set_plugin_setting(cfg, name, key, value) ==
    LET settings == IF name \in DOMAIN cfg THEN cfg[name] ELSE EmptyMap
    IN  MapInsert(cfg, name, MapInsert(settings, key, value))

\* Mutant of FitsHandoff: the 4 bytes of the length prefix are forgotten.
FitsHandoffNoPrefix(value_bytes, data_len) ==
    config_write_pos + Len(value_bytes) < data_len

\* load_config: write_pos + 4 + value_bytes.len() < data.len()
FitsHandoff(value_bytes, data_len) ==
    config_write_pos + 4 + Len(value_bytes) < data_len

\* What a host function did: r = [panic, ret, memory, plugins, console,
\* events].  A panic unwinds out of the host function and out of the guest
\* call that made it.
Returned(r, name, args) ==
    /\ host' = IF r.panic THEN "panicked" ELSE "running"
    /\ ret' = IF r.panic THEN [kind |-> "unwind"] ELSE r.ret
    /\ memory' = r.memory
    /\ plugins' = r.plugins
    /\ entries' = r.console.entries
    /\ active_addresses' = r.console.active_addresses
    /\ trace' = r.events
    /\ op' = [name |-> name, args |-> args]

\* a host function that did nothing (so far)
NoEffect ==
    [panic |-> FALSE, ret |-> [kind |-> "unit"], memory |-> memory,
     plugins |-> plugins, console |-> Console, events |-> << >>]

Panic == [NoEffect EXCEPT !.panic = TRUE]

I32(n) == [kind |-> "i32", v |-> n]

\* load_config(key_ptr, key_len) -> value_ptr or 0
load_config_result(key_ptr, key_len) ==
    LET key_bytes == Slice(memory, key_ptr, key_len)
    IN  IF key_bytes.panic THEN Panic
        ELSE
        LET key == from_utf8_lossy(key_bytes.bytes)
            found == get_plugin_setting(plugins, plugin_name, key)
            value_bytes == found.value
            w1 == CopyFromSlice(memory, config_write_pos,
                                to_le_bytes(Len(value_bytes)))
            w2 == CopyFromSlice(w1.data, config_write_pos + 4, value_bytes)
        IN  IF found.some /\ FitsHandoff(value_bytes, Len(memory))
            THEN IF w1.panic THEN Panic
                 ELSE IF w2.panic THEN [Panic EXCEPT !.memory = w1.data]
                 ELSE [NoEffect EXCEPT !.memory = w2.data,
                                       !.ret = I32(config_write_pos)]
            ELSE [NoEffect EXCEPT !.ret = I32(0)]

\* save_config(key_ptr, key_len, value_ptr, value_len); save_ok: whether
\* Config::save could write the file
save_config_result(key_ptr, key_len, value_ptr, value_len, save_ok) ==
    LET key_bytes == Slice(memory, key_ptr, key_len)
        value_bytes == Slice(memory, value_ptr, value_len)
    IN  IF key_bytes.panic \/ value_bytes.panic THEN Panic
        ELSE
        LET key == from_utf8_lossy(key_bytes.bytes)
            value == from_utf8_lossy(value_bytes.bytes)
        IN  [NoEffect EXCEPT
               !.plugins = set_plugin_setting(plugins, plugin_name, key, value),
               !.console = IF save_ok THEN Console
                           ELSE log_error(Console, <<"Failed to save config: {}", "io">>)]

\* Mutant of send_float: the sent command is logged before it is sent.
send_float_logs_first(r, address, value, send_ok) ==
    IF send_ok
    THEN [r EXCEPT
            !.events = Append(@, [ev |-> "send_to",
                                  addr |-> address,
                                  args |-> << [ty |-> "Float", v |-> value] >>]),
            !.console = log_osc_sent(@, address, <<"{}", value>>),
            !.ret = [kind |-> "Ok"]]
    ELSE [r EXCEPT !.console = log_osc_sent(@, address, <<"{}", value>>),
                   !.ret = [kind |-> "Err"]]

\* OscManager::send_float; send_ok: whether encoding and send_to succeeded
send_float(r, address, value, send_ok) ==
    IF send_ok
    THEN [r EXCEPT
            !.events = Append(@, [ev |-> "send_to",
                                  addr |-> address,
                                  args |-> << [ty |-> "Float", v |-> value] >>]),
            !.console = log_osc_sent(@, address, <<"{}", value>>),
            !.ret = [kind |-> "Ok"]]
    ELSE [r EXCEPT !.ret = [kind |-> "Err"]]

\* OscManager::send_string: nothing is logged
send_string(r, address, value, send_ok) ==
    IF send_ok
    THEN [r EXCEPT
            !.events = Append(@, [ev |-> "send_to",
                                  addr |-> address,
                                  args |-> << [ty |-> "String", v |-> value] >>]),
            !.ret = [kind |-> "Ok"]]
    ELSE [r EXCEPT !.ret = [kind |-> "Err"]]

\* OscManager::send_chatbox
send_chatbox(r, message, send_immediately, send_ok) ==
    IF send_ok
    THEN [r EXCEPT
            !.events = Append(@, [ev |-> "send_to",
                                  addr |-> "/chatbox/input",
                                  args |-> << [ty |-> "String", v |-> message],
                                              [ty |-> "Bool", v |-> send_immediately] >>]),
            !.console = log_osc_sent(@, "/chatbox/input",
                                     <<"\"{}\" (immediate: {})", message, send_immediately>>),
            !.ret = [kind |-> "Ok"]]
    ELSE [r EXCEPT !.ret = [kind |-> "Err"]]

\* osc_send_float(address_ptr, address_len, value) -> 1 or 0
osc_send_float_result(addr_ptr, addr_len, value, send_ok) ==
    LET addr_bytes == Slice(memory, addr_ptr, addr_len)
    IN  IF addr_bytes.panic THEN Panic
        ELSE
        LET sent == send_float(NoEffect, from_utf8_lossy(addr_bytes.bytes),
                               value, send_ok)
        IN  IF sent.ret.kind = "Err"
            THEN [sent EXCEPT
                    !.console = log_error(@, <<"OSC send failed: {}", "io">>),
                    !.ret = I32(0)]
            ELSE [sent EXCEPT !.ret = I32(1)]

\* Mutant of osc_send_chatbox_result: typing == 0 is passed as
\* send_immediately.
osc_send_chatbox_result_inverted(msg_ptr, msg_len, typing, send_ok) ==
    LET msg_bytes == Slice(memory, msg_ptr, msg_len)
    IN  IF msg_bytes.panic THEN Panic
        ELSE
        LET sent == send_chatbox(NoEffect, from_utf8_lossy(msg_bytes.bytes),
                                 typing = 0, send_ok)
        IN  IF sent.ret.kind = "Err"
            THEN [sent EXCEPT
                    !.console = log_error(@, <<"OSC chatbox send failed: {}", "io">>),
                    !.ret = I32(0)]
            ELSE [sent EXCEPT !.ret = I32(1)]

\* osc_send_chatbox(message_ptr, message_len, typing) -> 1 or 0
osc_send_chatbox_result(msg_ptr, msg_len, typing, send_ok) ==
    LET msg_bytes == Slice(memory, msg_ptr, msg_len)
    IN  IF msg_bytes.panic THEN Panic
        ELSE
        LET sent == send_chatbox(NoEffect, from_utf8_lossy(msg_bytes.bytes),
                                 typing # 0, send_ok)
        IN  IF sent.ret.kind = "Err"
            THEN [sent EXCEPT
                    !.console = log_error(@, <<"OSC chatbox send failed: {}", "io">>),
                    !.ret = I32(0)]
            ELSE [sent EXCEPT !.ret = I32(1)]

\* log_info(msg_ptr, msg_len)
log_info_result(msg_ptr, msg_len) ==
    LET msg_bytes == Slice(memory, msg_ptr, msg_len)
    IN  IF msg_bytes.panic THEN Panic
        ELSE [NoEffect EXCEPT
                !.console = log_info(@, <<"{}", from_utf8_lossy(msg_bytes.bytes)>>)]

\* log_error(msg_ptr, msg_len)
log_error_result(msg_ptr, msg_len) ==
    LET msg_bytes == Slice(memory, msg_ptr, msg_len)
    IN  IF msg_bytes.panic THEN Panic
        ELSE [NoEffect EXCEPT
                !.console = log_error(@, <<"{}", from_utf8_lossy(msg_bytes.bytes)>>)]

\* u32::from_le_bytes; a length of 2^24 or more is above every memory length
\* of the model and stands for itself as MemLen + 2^24
from_le_bytes(b) ==
    IF b[4] > 0 THEN MemLen + 16777216
    ELSE b[1] + 256 * b[2] + 65536 * b[3]

\* WasmPlugin::read_string_from_memory(memory, store, ptr), called with the
\* pointer plugin_info / plugin_ui_config returned
read_string_from_memory(data, ptr) ==
    IF ptr < 0 \/ ptr + 4 > Len(data) THEN [panic |-> TRUE, string |-> << >>]
    ELSE LET len == from_le_bytes(SubSeq(data, ptr + 1, ptr + 4))
         IN  IF ptr + 4 + len > Len(data)
             THEN [panic |-> TRUE, string |-> << >>]
             ELSE [panic |-> FALSE,
                   string |-> from_utf8_lossy(SubSeq(data, ptr + 5, ptr + 4 + len))]

\* call_get_info / call_get_ui_config up to the string read: the guest's
\* plugin_info or plugin_ui_config returned ptr
read_string_result(ptr) ==
    LET str == read_string_from_memory(memory, ptr)
    IN  IF str.panic THEN Panic
        ELSE [NoEffect EXCEPT !.ret = [kind |-> "Ok", string |-> str.string]]

\* ---- the guest's calls

\* (pointer, length) pairs inside guest memory that the guest passes
KeyRefs == { <<0, 1>>, <<1, 1>> }
ValueRefs ==
    { <<0, 0>>, <<0, MaxValueLen - 2>>, <<0, MaxValueLen>>, <<1, MaxValueLen - 1>> }
TextRefs == { <<0, 2>>, <<MemLen, 0>> }
\* pairs partly or wholly outside guest memory
BadRefs ==
    { <<-1, 1>>, <<MemLen - 1, 2>>, <<2, -1>>, <<I32Max, 1>> }
\* pointers a guest returns from plugin_info / plugin_ui_config
StringPtrs == { 0, config_write_pos, MemLen - 4, MemLen - 3, -1 }

\* the guest's data segment: the bytes at addresses 0..3
DataImages == { <<65, 66, 66, 65>>, <<65, 255, 66, 65>> }

\* the guest calls a host function only while the host is running, and the
\* log is followed while it is short
GuestCalls == host = "running" /\ LogHasRoom

guest_load_config(key) ==
    /\ GuestCalls
    /\ Returned(load_config_result(key[1], key[2]), "load_config",
                [key |-> key])
    /\ UNCHANGED <<listeners, enabled, saved, running, exports, auxVars>>

guest_save_config(key, value, save_ok) ==
    /\ GuestCalls
    /\ LET r == save_config_result(key[1], key[2], value[1], value[2], save_ok)
       IN  /\ Returned(r, "save_config", [key |-> key, value |-> value])
           /\ saved' = IF r.panic THEN saved
                       ELSE MapInsert(saved, Slice(memory, key[1], key[2]).bytes,
                                      Slice(memory, value[1], value[2]).bytes)
    /\ UNCHANGED <<listeners, enabled, running, exports, auxVars>>

guest_osc_send_float(addr, value, send_ok) ==
    /\ GuestCalls
    /\ Returned(osc_send_float_result(addr[1], addr[2], value, send_ok),
                "osc_send_float",
                [addr |-> addr, value |-> value, send_ok |-> send_ok])
    /\ UNCHANGED <<listeners, enabled, saved, running, exports, auxVars>>

guest_osc_send_chatbox(msg, typing, send_ok) ==
    /\ GuestCalls
    /\ Returned(osc_send_chatbox_result(msg[1], msg[2], typing, send_ok),
                "osc_send_chatbox",
                [msg |-> msg, typing |-> typing, send_ok |-> send_ok])
    /\ UNCHANGED <<listeners, enabled, saved, running, exports, auxVars>>

guest_log_info(msg) ==
    /\ GuestCalls
    /\ Returned(log_info_result(msg[1], msg[2]), "log_info", [msg |-> msg])
    /\ UNCHANGED <<listeners, enabled, saved, running, exports, auxVars>>

guest_log_error(msg) ==
    /\ GuestCalls
    /\ Returned(log_error_result(msg[1], msg[2]), "log_error", [msg |-> msg])
    /\ UNCHANGED <<listeners, enabled, saved, running, exports, auxVars>>

guest_returns_string(ptr) ==
    /\ GuestCalls
    /\ Returned(read_string_result(ptr), "read_string_from_memory",
                [ptr |-> ptr])
    /\ UNCHANGED <<listeners, enabled, saved, running, exports, auxVars>>

\* a loaded plugin: its data segment in memory, no setting stored yet
AbiInit ==
    /\ listeners = EmptyMap
    /\ enabled \in BOOLEAN
    /\ entries = << >>
    /\ active_addresses = EmptyMap
    /\ op = [name |-> "new"]
    /\ trace = << >>
    /\ memory \in { img \o [a \in 1..(MemLen - Len(img)) |-> 0] :
                      img \in DataImages }
    /\ plugins = EmptyMap
    /\ host = "running"
    /\ ret = [kind |-> "none"]
    /\ saved = EmptyMap
    /\ running = FALSE
    /\ exports = {}
    /\ last_ok = "none"
    /\ instances = 2
    /\ instance = 2
    /\ threads = Idle
    /\ loaded = << >>
    /\ guest = BoopStatics
    /\ clock = 0
    /\ last_displayed_count = 0
    /\ history = NoHistory

LoadConfigAny == \E k \in KeyRefs \cup BadRefs : guest_load_config(k)
SaveConfigAny ==
    \E k \in KeyRefs, v \in ValueRefs, ok \in BOOLEAN :
        guest_save_config(k, v, ok)
SaveConfigBadAny ==
    \E b \in BadRefs :
        \/ guest_save_config(b, <<0, 1>>, TRUE)
        \/ guest_save_config(<<0, 1>>, b, TRUE)
SendFloatAny ==
    \E a \in TextRefs \cup BadRefs, ok \in BOOLEAN :
        guest_osc_send_float(a, 25, ok)
SendChatboxAny ==
    \E m \in TextRefs \cup BadRefs, typing \in {0, 1, 2}, ok \in BOOLEAN :
        guest_osc_send_chatbox(m, typing, ok)
LogInfoAny == \E m \in TextRefs \cup BadRefs : guest_log_info(m)
LogErrorAny == \E m \in TextRefs \cup BadRefs : guest_log_error(m)
ReturnsStringAny == \E ptr \in StringPtrs : guest_returns_string(ptr)

AbiNext ==
    \/ LoadConfigAny
    \/ SaveConfigAny
    \/ SaveConfigBadAny
    \/ SendFloatAny
    \/ SendChatboxAny
    \/ LogInfoAny
    \/ LogErrorAny
    \/ ReturnsStringAny
    \/ clear

SpecAbi == AbiInit /\ [][AbiNext]_vars

\* ---- OscManager's senders, called by the host itself
\* the texts the host passes: an address, a chatbox message
SendTexts == { from_utf8_lossy(<<47, 97>>), from_utf8_lossy(<<104, 105>>) }

call_send_float(address, value, send_ok) ==
    /\ GuestCalls
    /\ Returned(send_float(NoEffect, address, value, send_ok), "send_float",
                [address |-> address, value |-> value, send_ok |-> send_ok])
    /\ UNCHANGED <<listeners, enabled, saved, running, exports, auxVars>>

call_send_string(address, value, send_ok) ==
    /\ GuestCalls
    /\ Returned(send_string(NoEffect, address, value, send_ok), "send_string",
                [address |-> address, value |-> value, send_ok |-> send_ok])
    /\ UNCHANGED <<listeners, enabled, saved, running, exports, auxVars>>

call_send_chatbox(message, send_immediately, send_ok) ==
    /\ GuestCalls
    /\ Returned(send_chatbox(NoEffect, message, send_immediately, send_ok),
                "send_chatbox",
                [message |-> message, send_immediately |-> send_immediately,
                 send_ok |-> send_ok])
    /\ UNCHANGED <<listeners, enabled, saved, running, exports, auxVars>>

CallSendFloatAny ==
    \E a \in SendTexts, ok \in BOOLEAN : call_send_float(a, 25, ok)
CallSendStringAny ==
    \E a \in SendTexts, v \in SendTexts, ok \in BOOLEAN :
        call_send_string(a, v, ok)
CallSendChatboxAny ==
    \E m \in SendTexts, f \in BOOLEAN, ok \in BOOLEAN :
        call_send_chatbox(m, f, ok)

SendNext ==
    \/ SendFloatAny
    \/ SendChatboxAny
    \/ CallSendFloatAny
    \/ CallSendStringAny
    \/ CallSendChatboxAny
    \/ clear

SpecSend == AbiInit /\ [][SendNext]_vars

\* ==================================================================
\* Plugin lifecycle: WasmPlugin::start, stop and update
\* ==================================================================

\* the guest's lifecycle entry points
LifecycleExports == {"plugin_start", "plugin_stop", "plugin_update"}

\* how a call into the guest ends: it returns, or it traps (call(..) is Err)
GuestOutcomes == {"ok", "trap"}

Ok == [kind |-> "Ok"]
Err(context) == [kind |-> "Err", context |-> context]
GuestCall(fn) == [ev |-> "guest_call", fn |-> fn]

\* Mutant of start_result: plugin_start is called whether or not the plugin
\* is running.
start_result_unguarded(is_running, exported, console, outcome) ==
    IF "plugin_start" \notin exported
    THEN [running |-> is_running,
          ret |-> Err("Plugin missing plugin_start function"),
          calls |-> << >>, console |-> console]
    ELSE IF outcome = "trap"
    THEN [running |-> is_running, ret |-> Err("Failed to call plugin_start"),
          calls |-> << GuestCall("plugin_start") >>, console |-> console]
    ELSE [running |-> TRUE, ret |-> Ok,
          calls |-> << GuestCall("plugin_start") >>,
          console |-> log_info(console, <<"Started plugin: {}", plugin_name>>)]

\* Mutant of start_result: the flag is set before the guest is called.
start_result_flag_first(is_running, exported, console, outcome) ==
    IF is_running
    THEN [running |-> TRUE, ret |-> Ok, calls |-> << >>, console |-> console]
    ELSE IF "plugin_start" \notin exported
    THEN [running |-> TRUE, ret |-> Err("Plugin missing plugin_start function"),
          calls |-> << >>, console |-> console]
    ELSE IF outcome = "trap"
    THEN [running |-> TRUE, ret |-> Err("Failed to call plugin_start"),
          calls |-> << GuestCall("plugin_start") >>, console |-> console]
    ELSE [running |-> TRUE, ret |-> Ok,
          calls |-> << GuestCall("plugin_start") >>,
          console |-> log_info(console, <<"Started plugin: {}", plugin_name>>)]

\* WasmPlugin::start
start_result(is_running, exported, console, outcome) ==
    IF is_running
    THEN [running |-> TRUE, ret |-> Ok, calls |-> << >>, console |-> console]
    ELSE IF "plugin_start" \notin exported
    THEN [running |-> FALSE, ret |-> Err("Plugin missing plugin_start function"),
          calls |-> << >>, console |-> console]
    ELSE IF outcome = "trap"
    THEN [running |-> FALSE, ret |-> Err("Failed to call plugin_start"),
          calls |-> << GuestCall("plugin_start") >>, console |-> console]
    ELSE [running |-> TRUE, ret |-> Ok,
          calls |-> << GuestCall("plugin_start") >>,
          console |-> log_info(console, <<"Started plugin: {}", plugin_name>>)]

\* Mutant of stop_result: plugin_stop is called whether or not the plugin is
\* running.
stop_result_unguarded(is_running, exported, console, outcome) ==
    IF "plugin_stop" \notin exported
    THEN [running |-> is_running,
          ret |-> IF is_running THEN Err("Plugin missing plugin_stop function")
                  ELSE Ok,
          calls |-> << >>, console |-> console]
    ELSE IF outcome = "trap"
    THEN [running |-> is_running, ret |-> Err("Failed to call plugin_stop"),
          calls |-> << GuestCall("plugin_stop") >>, console |-> console]
    ELSE [running |-> FALSE, ret |-> Ok,
          calls |-> << GuestCall("plugin_stop") >>,
          console |-> log_info(console, <<"Stopped plugin: {}", plugin_name>>)]

\* Mutant of stop_result: the flag is cleared before the guest is called.
stop_result_flag_first(is_running, exported, console, outcome) ==
    IF ~is_running
    THEN [running |-> FALSE, ret |-> Ok, calls |-> << >>, console |-> console]
    ELSE IF "plugin_stop" \notin exported
    THEN [running |-> FALSE, ret |-> Err("Plugin missing plugin_stop function"),
          calls |-> << >>, console |-> console]
    ELSE IF outcome = "trap"
    THEN [running |-> FALSE, ret |-> Err("Failed to call plugin_stop"),
          calls |-> << GuestCall("plugin_stop") >>, console |-> console]
    ELSE [running |-> FALSE, ret |-> Ok,
          calls |-> << GuestCall("plugin_stop") >>,
          console |-> log_info(console, <<"Stopped plugin: {}", plugin_name>>)]

\* WasmPlugin::stop
stop_result(is_running, exported, console, outcome) ==
    IF ~is_running
    THEN [running |-> FALSE, ret |-> Ok, calls |-> << >>, console |-> console]
    ELSE IF "plugin_stop" \notin exported
    THEN [running |-> TRUE, ret |-> Err("Plugin missing plugin_stop function"),
          calls |-> << >>, console |-> console]
    ELSE IF outcome = "trap"
    THEN [running |-> TRUE, ret |-> Err("Failed to call plugin_stop"),
          calls |-> << GuestCall("plugin_stop") >>, console |-> console]
    ELSE [running |-> FALSE, ret |-> Ok,
          calls |-> << GuestCall("plugin_stop") >>,
          console |-> log_info(console, <<"Stopped plugin: {}", plugin_name>>)]

\* Mutant of update_result: a plugin whose plugin_update traps is taken to
\* have stopped.
update_result_stops_on_trap(is_running, exported, console, outcome) ==
    IF ~is_running
    THEN [running |-> FALSE, ret |-> Ok, calls |-> << >>, console |-> console]
    ELSE IF "plugin_update" \notin exported
    THEN [running |-> TRUE, ret |-> Ok, calls |-> << >>, console |-> console]
    ELSE [running |-> outcome # "trap",
          ret |-> IF outcome = "trap" THEN Err("plugin_update") ELSE Ok,
          calls |-> << GuestCall("plugin_update") >>, console |-> console]

\* Mutant of update_result: a missing plugin_update is an error, as a missing
\* plugin_start is.
update_result_strict(is_running, exported, console, outcome) ==
    IF ~is_running
    THEN [running |-> FALSE, ret |-> Ok, calls |-> << >>, console |-> console]
    ELSE IF "plugin_update" \notin exported
    THEN [running |-> TRUE, ret |-> Err("Plugin missing plugin_update function"),
          calls |-> << >>, console |-> console]
    ELSE [running |-> TRUE,
          ret |-> IF outcome = "trap" THEN Err("plugin_update") ELSE Ok,
          calls |-> << GuestCall("plugin_update") >>, console |-> console]

\* WasmPlugin::update
update_result(is_running, exported, console, outcome) ==
    IF ~is_running
    THEN [running |-> FALSE, ret |-> Ok, calls |-> << >>, console |-> console]
    ELSE IF "plugin_update" \notin exported
    THEN [running |-> TRUE, ret |-> Ok, calls |-> << >>, console |-> console]
    ELSE [running |-> TRUE,
          ret |-> IF outcome = "trap" THEN Err("plugin_update") ELSE Ok,
          calls |-> << GuestCall("plugin_update") >>, console |-> console]

\* a lifecycle method has run: r = [running, ret, calls, console]
Lifecycle(r, name, outcome) ==
    /\ host = "running"
    /\ LogHasRoom
    /\ running' = r.running
    /\ ret' = r.ret
    /\ trace' = r.calls
    /\ entries' = r.console.entries
    /\ active_addresses' = r.console.active_addresses
    /\ op' = [name |-> name, args |-> [outcome |-> outcome]]
    /\ last_ok' = IF /\ outcome = "ok"
                     /\ r.calls # << >>
                     /\ r.calls[1].fn \in {"plugin_start", "plugin_stop"}
                  THEN r.calls[1].fn ELSE last_ok
    /\ UNCHANGED <<listeners, enabled, memory, plugins, host, saved, exports,
                   instances, instance, threads, loaded, guest, clock,
                   last_displayed_count, history>>

start(outcome) ==
    Lifecycle(start_result(running, exports, Console, outcome), "start", outcome)

stop(outcome) ==
    Lifecycle(stop_result(running, exports, Console, outcome), "stop", outcome)

update(outcome) ==
    Lifecycle(update_result(running, exports, Console, outcome), "update", outcome)

\* a plugin as WasmPlugin::load leaves it: not running, with the lifecycle
\* entry points its module exports
LifeInit ==
    /\ listeners = EmptyMap
    /\ enabled = TRUE
    /\ entries = << >>
    /\ active_addresses = EmptyMap
    /\ op = [name |-> "new"]
    /\ trace = << >>
    /\ memory = [a \in 1..MemLen |-> 0]
    /\ plugins = EmptyMap
    /\ host = "running"
    /\ ret = [kind |-> "none"]
    /\ saved = EmptyMap
    /\ running = FALSE
    /\ exports \in SUBSET LifecycleExports
    /\ last_ok = "none"
    /\ instances = 2
    /\ instance = 2
    /\ threads = Idle
    /\ loaded = << >>
    /\ guest = BoopStatics
    /\ clock = 0
    /\ last_displayed_count = 0
    /\ history = NoHistory

StartAny == \E outcome \in GuestOutcomes : start(outcome)
StopAny == \E outcome \in GuestOutcomes : stop(outcome)
UpdateAny == \E outcome \in GuestOutcomes : update(outcome)

LifeNext ==
    \/ StartAny
    \/ StopAny
    \/ UpdateAny
    \/ SetEnabledAny
    \/ clear

SpecLife == LifeInit /\ [][LifeNext]_vars

\* ==================================================================
\* The loaded plugin: UI events, config load and the boop listener
\* ==================================================================

\* the optional entry points besides the lifecycle ones
OptionalExports == {"plugin_ui_event", "plugin_load_config", "plugin_on_osc_bool"}
AllExports == LifecycleExports \cup OptionalExports

\* the export sets of the loaded modules: every entry point, the lifecycle
\* ones only, and plugin_start alone
ExportSets == { AllExports, LifecycleExports, {"plugin_start"} }

\* event_json.as_bytes() of the events sent: n bytes
Event(n) == [i \in 1..n |-> 96 + i]
Events == { Event(n) : n \in {2, MaxEventLen - 1, MaxEventLen} }

GuestCallWith(fn, args) == [ev |-> "guest_call", fn |-> fn, args |-> args]
Written(at, bytes) == [ev |-> "write", at |-> at, bytes |-> bytes]

\* WasmPlugin::send_ui_event
send_ui_event_result(exported, data, event, outcome) ==
    IF "plugin_ui_event" \notin exported
    THEN [ret |-> Ok, calls |-> << >>, memory |-> data]
    ELSE IF event_write_pos + Len(event) < Len(data)
    THEN [ret |-> IF outcome = "trap" THEN Err("plugin_ui_event") ELSE Ok,
          calls |-> << Written(event_write_pos, event),
                       GuestCallWith("plugin_ui_event",
                                     <<event_write_pos, Len(event)>>) >>,
          memory |-> CopyFromSlice(data, event_write_pos, event).data]
    ELSE [ret |-> Ok, calls |-> << >>, memory |-> data]

send_ui_event(event, outcome) ==
    /\ host = "running"
    /\ LET r == send_ui_event_result(exports, memory, event, outcome)
       IN  /\ ret' = r.ret
           /\ trace' = r.calls
           /\ memory' = r.memory
    /\ op' = [name |-> "send_ui_event",
              args |-> [event |-> event, outcome |-> outcome]]
    /\ UNCHANGED <<listeners, enabled, entries, active_addresses, plugins, host,
                   saved, running, exports, auxVars>>

\* WasmPlugin::load_config_from_disk
load_config_from_disk_result(exported, outcome) ==
    IF "plugin_load_config" \in exported
    THEN [ret |-> IF outcome = "trap" THEN Err("plugin_load_config") ELSE Ok,
          calls |-> << GuestCall("plugin_load_config") >>]
    ELSE [ret |-> Ok, calls |-> << >>]

load_config_from_disk(outcome) ==
    /\ host = "running"
    /\ LET r == load_config_from_disk_result(exports, outcome)
       IN  /\ ret' = r.ret
           /\ trace' = r.calls
    /\ op' = [name |-> "load_config_from_disk", args |-> [outcome |-> outcome]]
    /\ UNCHANGED <<listeners, enabled, entries, active_addresses, memory,
                   plugins, host, saved, running, exports, auxVars>>

\* the closure register_osc_boop_listener registers
boop_callback == "boop"

\* the address the boop listener is registered for
boop_addr ==
    LET found == get_plugin_setting(plugins, plugin_name, "boop_input_address")
    IN  IF found.some THEN found.value ELSE "/avatar/parameters/OSCBoop"

\* WasmPlugin::register_osc_boop_listener, with the register_listener call
\* it makes
register_osc_boop_listener ==
    /\ host = "running"
    /\ NumRegistered < MaxListeners
    /\ LogHasRoom
    /\ listeners' =
         IF boop_addr \in DOMAIN listeners
         THEN [listeners EXCEPT ![boop_addr] = Append(@, boop_callback)]
         ELSE MapInsert(listeners, boop_addr, <<boop_callback>>)
    /\ entries' = log_info(Console, <<"Registered OSC listener for: {}", boop_addr>>).entries
    /\ ret' = Ok
    /\ op' = [name |-> "register_osc_boop_listener", addr |-> boop_addr]
    /\ trace' = << >>
    /\ UNCHANGED <<enabled, active_addresses, memory, plugins, host, saved,
                   running, exports, auxVars>>

\* the i32 the boop closure passes to plugin_on_osc_bool: a Bool as 1 or 0, a
\* Float (in hundredths) as 1 when above 0.5
BoopValue(arg) ==
    IF arg.ty = "Bool" THEN (IF arg.v = 1 THEN 1 ELSE 0)
    ELSE IF arg.v > 50 THEN 1 ELSE 0

\* the boop closure calls the guest for this callback event
CallsGuest(e, exported) ==
    /\ e.ev = "callback"
    /\ e.cb = boop_callback
    /\ e.arg.ty \in {"Bool", "Float"}
    /\ "plugin_on_osc_bool" \in exported

\* the trace of a dispatch with the guest call of every boop closure
\* invocation after the invocation
RECURSIVE WithGuestCalls(_, _)
WithGuestCalls(tr, exported) ==
    IF tr = << >> THEN << >>
    ELSE (IF CallsGuest(Head(tr), exported)
          THEN << Head(tr),
                  GuestCallWith("plugin_on_osc_bool", <<BoopValue(Head(tr).arg)>>) >>
          ELSE << Head(tr) >>)
         \o WithGuestCalls(Tail(tr), exported)

\* console.write().log_error(..) of each of n failed plugin_on_osc_bool calls
RECURSIVE BoopErrors(_, _)
BoopErrors(c, n) ==
    IF n = 0 THEN c
    ELSE BoopErrors(log_error(c, <<"Failed to call plugin_on_osc_bool: {}", "trap">>),
                    n - 1)

\* receive_loop: a Message handled while the boop closure may be registered;
\* outcome is how the guest's plugin_on_osc_bool ends
ReceiveBoop(msg, outcome) ==
    /\ host = "running"
    /\ LogHasRoom
    /\ LET dispatched == handle_message(msg, [console |-> Console, trace |-> << >>])
           failed == IF outcome = "trap"
                     THEN Len(SelectSeq(dispatched.trace,
                                        LAMBDA e : CallsGuest(e, exports)))
                     ELSE 0
           w == handle_message(msg, [console |-> BoopErrors(Console, failed),
                                     trace |-> << >>])
       IN  /\ entries' = w.console.entries
           /\ active_addresses' = w.console.active_addresses
           /\ trace' = WithGuestCalls(w.trace, exports)
    /\ op' = [name |-> "handle_packet", packet |-> msg,
              args |-> [outcome |-> outcome]]
    /\ UNCHANGED <<listeners, enabled, pluginVars, auxVars>>

\* a plugin as WasmPlugin::new leaves it
PluginInit ==
    /\ listeners = EmptyMap
    /\ enabled = TRUE
    /\ entries = << >>
    /\ active_addresses = EmptyMap
    /\ op = [name |-> "new"]
    /\ trace = << >>
    /\ memory = [a \in 1..MemLen |-> 0]
    /\ plugins = EmptyMap
    /\ host = "running"
    /\ ret = [kind |-> "none"]
    /\ saved = EmptyMap
    /\ running = FALSE
    /\ exports \in ExportSets
    /\ last_ok = "none"
    /\ instances = 2
    /\ instance = 2
    /\ threads = Idle
    /\ loaded = << >>
    /\ guest = BoopStatics
    /\ clock = 0
    /\ last_displayed_count = 0
    /\ history = NoHistory

SendUiEventAny ==
    \E event \in Events, outcome \in GuestOutcomes : send_ui_event(event, outcome)
LoadConfigFromDiskAny ==
    \E outcome \in GuestOutcomes : load_config_from_disk(outcome)
\* the Messages with arguments that are sent to the boop address
BoopMessages == { m \in Messages : m.addr = boop_addr /\ m.args # << >> }
ReceiveBoopAny ==
    \E msg \in BoopMessages, outcome \in GuestOutcomes : ReceiveBoop(msg, outcome)

PluginNext ==
    \/ StartAny
    \/ StopAny
    \/ UpdateAny
    \/ SendUiEventAny
    \/ LoadConfigFromDiskAny
    \/ register_osc_boop_listener
    \/ ReceiveBoopAny
    \/ clear

SpecPlugin == PluginInit /\ [][PluginNext]_vars

\* ==================================================================
\* Loading a plugin: WasmPlugin::new
\* ==================================================================

\* the entry points WasmPlugin::new calls
InfoExports == {"plugin_info", "plugin_ui_config"}

\* the export sets of the module files that are loaded
ModuleExports == { E \cup X : E \in ExportSets, X \in SUBSET InfoExports }

\* the memory of a fresh instance of the module: at address 0 the string
\* "{}" with its 4-byte length prefix
ModuleImage ==
    <<2, 0, 0, 0, 123, 125>> \o [a \in 1..(MemLen - 6) |-> 0]

\* the pointers plugin_info and plugin_ui_config return
InfoPtrs == {0, MemLen - 3}

Instantiated(id) == [ev |-> "instantiate", id |-> id]
GuestCallIn(fn, id) == [ev |-> "guest_call", fn |-> fn, in |-> id]

\* Mutant of call_get_json: a function the module does not export counts as
\* one that returned valid JSON.
call_get_json_missing_ok(exported, fn, id, data, outcome, ptr, parses) ==
    IF fn \notin exported
    THEN [panic |-> FALSE, ret |-> Ok, calls |-> << >>]
    ELSE IF outcome = "trap"
    THEN [panic |-> FALSE, ret |-> Err("Failed to call"),
          calls |-> << GuestCallIn(fn, id) >>]
    ELSE LET str == read_string_from_memory(data, ptr)
         IN  [panic |-> str.panic,
              ret |-> IF parses THEN Ok ELSE Err("Failed to parse JSON"),
              calls |-> << GuestCallIn(fn, id) >>]

\* call_get_info / call_get_ui_config on instance id; parses: whether
\* serde_json accepts the string
call_get_json(exported, fn, id, data, outcome, ptr, parses) ==
    IF fn \notin exported
    THEN [panic |-> FALSE, ret |-> Err("Plugin missing function"), calls |-> << >>]
    ELSE IF outcome = "trap"
    THEN [panic |-> FALSE, ret |-> Err("Failed to call"),
          calls |-> << GuestCallIn(fn, id) >>]
    ELSE LET str == read_string_from_memory(data, ptr)
         IN  [panic |-> str.panic,
              ret |-> IF parses THEN Ok ELSE Err("Failed to parse JSON"),
              calls |-> << GuestCallIn(fn, id) >>]

\* PluginState.plugin_name of temp_store, in which plugin_info runs
temp_name == "temp"

\* the save_config calls a guest function makes while it runs: none, or one
\* of the key "A" with the value "B"
GuestSaves == { << >>, << [key |-> <<65>>, value |-> <<66>>] >> }

\* save_config in a store whose PluginState.plugin_name is name
SaveConfigIn(name, s) ==
    [ev |-> "save_config", store |-> name, key |-> s.key, value |-> s.value]
SaveEvents(name, saves) == [i \in 1..Len(saves) |-> SaveConfigIn(name, saves[i])]

\* the settings after the save_config calls `saves` in such a store
RECURSIVE ApplySaves(_, _, _)
ApplySaves(cfg, name, saves) ==
    IF saves = << >> THEN cfg
    ELSE ApplySaves(set_plugin_setting(cfg, name, Head(saves).key,
                                       Head(saves).value),
                    name, Tail(saves))

\* WasmPlugin::new(path, ..): the module of the file at path exports
\* `exported`; info and ui are what its plugin_info and plugin_ui_config do:
\* [outcome, ptr, parses, saves]
new(exported, info, ui) ==
    /\ host = "running"
    /\ instance = 0
    /\ instances = 0
    /\ LogHasRoom
    /\ LET got_info == call_get_json(exported, "plugin_info", instances + 1,
                                     ModuleImage, info.outcome, info.ptr,
                                     info.parses)
           got_ui == call_get_json(exported, "plugin_ui_config", instances + 2,
                                   ModuleImage, ui.outcome, ui.ptr, ui.parses)
           info_saves == IF "plugin_info" \in exported THEN info.saves ELSE << >>
           ui_saves == IF "plugin_ui_config" \in exported THEN ui.saves ELSE << >>
           temp == << Instantiated(instances + 1) >> \o got_info.calls
                     \o SaveEvents(temp_name, info_saves)
           proper == temp \o << Instantiated(instances + 2) >> \o got_ui.calls
                       \o SaveEvents(plugin_name, ui_saves)
           after_info == ApplySaves(plugins, temp_name, info_saves)
           after_ui == ApplySaves(after_info, plugin_name, ui_saves)
       IN  IF got_info.panic
           THEN /\ host' = "panicked"
                /\ ret' = [kind |-> "unwind"]
                /\ trace' = temp
                /\ instances' = instances + 1
                /\ plugins' = after_info
                /\ UNCHANGED <<entries, memory, exports, instance, running>>
           ELSE IF got_info.ret.kind = "Err"
           THEN /\ ret' = got_info.ret
                /\ trace' = temp
                /\ instances' = instances + 1
                /\ plugins' = after_info
                /\ UNCHANGED <<entries, memory, exports, instance, host, running>>
           ELSE IF got_ui.panic
           THEN /\ host' = "panicked"
                /\ ret' = [kind |-> "unwind"]
                /\ trace' = proper
                /\ instances' = instances + 2
                /\ plugins' = after_ui
                /\ UNCHANGED <<entries, memory, exports, instance, running>>
           ELSE /\ ret' = [kind |-> "Ok", ui_config |-> got_ui.ret.kind = "Ok"]
                /\ trace' = proper
                /\ instances' = instances + 2
                /\ plugins' = after_ui
                /\ running' = FALSE
                /\ instance' = instances + 2
                /\ memory' = ModuleImage
                /\ exports' = exported
                /\ entries' = log_info(Console, <<"Loaded plugin: {} v{}", plugin_name>>).entries
                /\ UNCHANGED host
    /\ op' = [name |-> "new",
              args |-> [exported |-> exported, info |-> info, ui |-> ui]]
    /\ UNCHANGED <<listeners, enabled, active_addresses, saved,
                   last_ok, threads, loaded, guest, clock,
                   last_displayed_count, history>>

\* what a guest's info function may do
InfoResults ==
    [outcome : GuestOutcomes, ptr : InfoPtrs, parses : BOOLEAN,
     saves : GuestSaves]

\* no plugin is loaded
LoadInit ==
    /\ listeners = EmptyMap
    /\ enabled \in BOOLEAN
    /\ entries = << >>
    /\ active_addresses = EmptyMap
    /\ op = [name |-> "none"]
    /\ trace = << >>
    /\ NoPlugin

NewAny ==
    \E exported \in ModuleExports, info \in InfoResults, ui \in InfoResults :
        new(exported, info, ui)

LoadNext ==
    \/ NewAny
    \/ instance # 0 /\ StartAny
    \/ instance # 0 /\ StopAny
    \/ instance # 0 /\ UpdateAny
    \/ clear

SpecLoad == LoadInit /\ [][LoadNext]_vars

\* ==================================================================
\* WasmPluginLoader::load_all
\* ==================================================================
\* At most this many files in the plugins directory.
MaxBinaries == 2

\* PluginInfo.name of the modules
PluginNames == {"Boop Counter", "Watch"}

\* what the file is: a module that loads, one whose plugin_load_config traps,
\* one without plugin_info, one whose plugin_info traps, one whose identity is
\* not valid JSON, one whose plugin_info returns a pointer to the last three
\* bytes of its memory, and a file that is no .wasm file
BinaryKinds ==
    {"ok", "config_trap", "no_info", "info_trap", "bad_json", "bad_ptr",
     "not_wasm"}

Binary(name, kind) ==
    [name |-> name,
     kind |-> kind,
     wasm |-> kind # "not_wasm",
     exported |-> IF kind = "no_info"
                  THEN AllExports \cup {"plugin_ui_config"}
                  ELSE AllExports \cup InfoExports,
     info |-> [outcome |-> IF kind = "info_trap" THEN "trap" ELSE "ok",
               ptr |-> IF kind = "bad_ptr" THEN MemLen - 3 ELSE 0,
               parses |-> kind # "bad_json",
               saves |-> << >>],
     ui |-> [outcome |-> "ok", ptr |-> 0, parses |-> TRUE, saves |-> << >>],
     config |-> IF kind = "config_trap" THEN "trap" ELSE "ok"]

Binaries == { Binary(n, k) : n \in PluginNames, k \in BinaryKinds }

\* fs::read_dir(&self.plugins_dir): the files in enumeration order
Directories == UNION { [1..k -> Binaries] : k \in 0..MaxBinaries }

\* WasmPlugin::new on the file b: a panic, Err, or Ok
new_result(b) ==
    LET got_info == call_get_json(b.exported, "plugin_info", 1, ModuleImage,
                                  b.info.outcome, b.info.ptr, b.info.parses)
        got_ui == call_get_json(b.exported, "plugin_ui_config", 2, ModuleImage,
                                b.ui.outcome, b.ui.ptr, b.ui.parses)
    IN  IF got_info.panic THEN [panic |-> TRUE, ret |-> [kind |-> "unwind"]]
        ELSE IF got_info.ret.kind = "Err" THEN [panic |-> FALSE, ret |-> got_info.ret]
        ELSE IF got_ui.panic THEN [panic |-> TRUE, ret |-> [kind |-> "unwind"]]
        ELSE [panic |-> FALSE, ret |-> Ok]

\* a step of load_all's Ok arm on the i-th file
LoadStep(ev, i) == [ev |-> ev, plugin |-> i]
ListenerRegistered(i, address) ==
    [ev |-> "register_listener", plugin |-> i, addr |-> address]

\* Mutant of loaded_arm: the listener is registered before the config load.
loaded_arm_registers_first(b, i, w) ==
    LET c1 == log_info(log_info(w.console, <<"Loaded plugin: {} v{}", b.name>>),
                       <<"Loaded: {}", b.name>>)
        cfg == load_config_from_disk_result(b.exported, b.config)
        boop == b.name = "Boop Counter"
        c2 == IF boop
              THEN log_info(c1, <<"Registered OSC listener for: {}", boop_addr>>)
              ELSE c1
    IN  [w EXCEPT
           !.console = IF cfg.ret.kind = "Err"
                       THEN log_error(c2, <<"Failed to load config for {}: {}",
                                            b.name>>)
                       ELSE c2,
           !.listeners = IF ~boop THEN @
                         ELSE IF boop_addr \in DOMAIN @
                         THEN [@ EXCEPT ![boop_addr] = Append(@, boop_callback)]
                         ELSE MapInsert(@, boop_addr, <<boop_callback>>),
           !.calls = @ \o (IF boop THEN << ListenerRegistered(i, boop_addr) >>
                           ELSE << >>)
                       \o << LoadStep("load_config_from_disk", i) >> \o cfg.calls
                       \o << LoadStep("push", i) >>,
           !.plugins = Append(@, [file |-> i, name |-> b.name, running |-> FALSE,
                                  exported |-> b.exported])]

\* Ok(mut plugin) => ..: the i-th file b has been loaded; w = [panic, plugins,
\* console, listeners, calls]
loaded_arm(b, i, w) ==
    LET c1 == log_info(log_info(w.console, <<"Loaded plugin: {} v{}", b.name>>),
                       <<"Loaded: {}", b.name>>)
        cfg == load_config_from_disk_result(b.exported, b.config)
        c2 == IF cfg.ret.kind = "Err"
              THEN log_error(c1, <<"Failed to load config for {}: {}", b.name>>)
              ELSE c1
        boop == b.name = "Boop Counter"
    IN  [w EXCEPT
           !.console = IF boop
                       THEN log_info(c2, <<"Registered OSC listener for: {}",
                                           boop_addr>>)
                       ELSE c2,
           !.listeners = IF ~boop THEN @
                         ELSE IF boop_addr \in DOMAIN @
                         THEN [@ EXCEPT ![boop_addr] = Append(@, boop_callback)]
                         ELSE MapInsert(@, boop_addr, <<boop_callback>>),
           !.calls = @ \o << LoadStep("load_config_from_disk", i) >> \o cfg.calls
                       \o (IF boop THEN << ListenerRegistered(i, boop_addr) >>
                           ELSE << >>)
                       \o << LoadStep("push", i) >>,
           !.plugins = Append(@, [file |-> i, name |-> b.name, running |-> FALSE,
                                  exported |-> b.exported])]

\* for entry in entries { .. }, from the i-th file on
RECURSIVE load_entries(_, _, _)
load_entries(dir, i, w) ==
    IF i > Len(dir) \/ w.panic THEN w
    ELSE IF ~dir[i].wasm THEN load_entries(dir, i + 1, w)
    ELSE LET r == new_result(dir[i])
         IN  IF r.panic THEN [w EXCEPT !.panic = TRUE]
             ELSE IF r.ret.kind = "Err"
             THEN load_entries(dir, i + 1,
                    [w EXCEPT !.console =
                       log_error(@, <<"Failed to load {}: {}", i>>)])
             ELSE load_entries(dir, i + 1, loaded_arm(dir[i], i, w))

\* load_all on a plugins directory holding the files dir; readable: whether
\* fs::read_dir succeeds
load_all(dir, readable) ==
    /\ host = "running"
    /\ op.name = "none"
    /\ LET c0 == log_info(Console, <<"Loading plugins from: {}">>)
           w == load_entries(dir, 1, [panic |-> FALSE, plugins |-> loaded,
                                      console |-> c0, listeners |-> listeners,
                                      calls |-> << >>])
       IN  IF ~readable
           THEN /\ ret' = Err("read_dir")
                /\ entries' = c0.entries
                /\ trace' = << >>
                /\ UNCHANGED <<host, loaded, listeners>>
           ELSE IF w.panic
           THEN /\ host' = "panicked"
                /\ ret' = [kind |-> "unwind"]
                /\ entries' = w.console.entries
                /\ loaded' = w.plugins
                /\ listeners' = w.listeners
                /\ trace' = w.calls
           ELSE /\ ret' = Ok
                /\ entries' = log_info(w.console, <<"Loaded {} plugin(s)",
                                                    Len(w.plugins)>>).entries
                /\ loaded' = w.plugins
                /\ listeners' = w.listeners
                /\ trace' = w.calls
                /\ UNCHANGED host
    /\ op' = [name |-> "load_all", args |-> [dir |-> dir, readable |-> readable]]
    /\ UNCHANGED <<enabled, active_addresses, memory, plugins, saved, running,
                   exports, last_ok, instances, instance, threads, guest,
                   clock, last_displayed_count, history>>

\* WasmPluginLoader::new: no plugin loaded; the console is on
LoaderInit ==
    /\ listeners = EmptyMap
    /\ enabled = TRUE
    /\ entries = << >>
    /\ active_addresses = EmptyMap
    /\ op = [name |-> "none"]
    /\ trace = << >>
    /\ NoPlugin

LoadAllAny == \E dir \in Directories, readable \in BOOLEAN : load_all(dir, readable)

LoaderNext == LoadAllAny

SpecLoader == LoaderInit /\ [][LoaderNext]_vars

\* ==================================================================
\* The Boop Counter guest: plugins/boop-counter-plugin/src/lib.rs
\* ==================================================================
\* is_different_day: one day = 86400 seconds
day_seconds == 86400

\* load_config_from_disk is followed for this many calls.
MaxLoads == 3

\* DEFAULT_BOOP_INPUT, the bytes of "/avatar/parameters/OSCBoop"
DEFAULT_BOOP_INPUT ==
    << 47, 97, 118, 97, 116, 97, 114, 47, 112, 97, 114, 97, 109, 101, 116,
    101, 114, 115, 47, 79, 83, 67, 66, 111, 111, 112 >>

\* the bytes of "/avatar/parameters/Other", an address set by the user
OtherBoopInput ==
    << 47, 97, 118, 97, 116, 97, 114, 47, 112, 97, 114, 97, 109, 101, 116,
    101, 114, 115, 47, 79, 116, 104, 101, 114 >>

\* the decimal digits of n > 0 as ASCII bytes, most significant first
RECURSIVE Digits(_)
Digits(n) == IF n = 0 THEN << >> ELSE Digits(n \div 10) \o << 48 + (n % 10) >>

\* u32_to_str / u64_to_str: "0" for 0, else the digits
u32_to_str(num) == IF num = 0 THEN << 48 >> ELSE Digits(num)
u64_to_str(num) == IF num = 0 THEN << 48 >> ELSE Digits(num)

\* str_to_u32 / str_to_u64: the digits of s read as a decimal number, every
\* other byte skipped.  The texts read here have at most six digits, so the
\* result stays far below 2^32.
RECURSIVE ParseFrom(_, _, _)
ParseFrom(s, i, result) ==
    IF i > Len(s) THEN result
    ELSE ParseFrom(s, i + 1,
                   IF s[i] >= 48 /\ s[i] <= 57
                   THEN result * 10 + (s[i] - 48) ELSE result)
str_to_u32(s) == ParseFrom(s, 1, 0)
str_to_u64(s) == ParseFrom(s, 1, 0)

\* Mutant of is_different_day: the day after counts as the same day.
is_different_day_lenient(ts1, ts2) ==
    LET day1 == ts1 \div day_seconds
        day2 == ts2 \div day_seconds
    IN  day1 + 1 < day2 \/ day2 + 1 < day1

is_different_day(ts1, ts2) ==
    LET day1 == ts1 \div day_seconds
        day2 == ts2 \div day_seconds
    IN  day1 # day2

\* load_config_value(key): the host's load_config under the plugin's name.
\* The values stored here are far shorter than the handoff region of a real
\* guest memory, so a stored value is always handed over.
load_config_value(cfg, key) == get_plugin_setting(cfg, plugin_name, key)

\* save_config_value(key, value): the host's save_config
save_config_value(cfg, key, value) ==
    set_plugin_setting(cfg, plugin_name, key, value)

\* save_counters: the settings after it, g being the statics
save_counters(g, cfg) ==
    save_config_value(
      save_config_value(
        save_config_value(cfg, "today_boops", u32_to_str(g.TODAY_BOOPS)),
        "total_boops", u32_to_str(g.TOTAL_BOOPS)),
      "last_boop_timestamp", u64_to_str(g.LAST_BOOP_TIMESTAMP))

\* Mutant of plugin_load_config: the persisted daily count is added to the
\* guest's.
plugin_load_config_accumulates(g, cfg, now) ==
    LET addr == load_config_value(cfg, "boop_input_address")
        today == load_config_value(cfg, "today_boops")
        total == load_config_value(cfg, "total_boops")
        ts == load_config_value(cfg, "last_boop_timestamp")
        g1 == [g EXCEPT
                 !.BOOP_INPUT = IF addr.some THEN addr.value ELSE DEFAULT_BOOP_INPUT,
                 !.TODAY_BOOPS = IF today.some THEN @ + str_to_u32(today.value) ELSE @,
                 !.TOTAL_BOOPS = IF total.some THEN str_to_u32(total.value) ELSE @,
                 !.LAST_BOOP_TIMESTAMP = IF ts.some THEN str_to_u64(ts.value) ELSE @]
        reset == g1.LAST_BOOP_TIMESTAMP > 0
                   /\ is_different_day(g1.LAST_BOOP_TIMESTAMP, now)
        g2 == IF reset THEN [g1 EXCEPT !.TODAY_BOOPS = 0] ELSE g1
    IN  [guest |-> [g2 EXCEPT !.LAST_BOOP_TIMESTAMP = now],
         cfg |-> IF reset THEN save_counters(g2, cfg) ELSE cfg,
         reset |-> reset]

\* plugin_load_config with the statics g, the settings cfg and the time now
\* that get_unix_timestamp returns: the address (addresses are shorter than
\* the 127 bytes kept), the counters, the timestamp, then the day check
plugin_load_config(g, cfg, now) ==
    LET addr == load_config_value(cfg, "boop_input_address")
        today == load_config_value(cfg, "today_boops")
        total == load_config_value(cfg, "total_boops")
        ts == load_config_value(cfg, "last_boop_timestamp")
        g1 == [g EXCEPT
                 !.BOOP_INPUT = IF addr.some THEN addr.value ELSE DEFAULT_BOOP_INPUT,
                 !.TODAY_BOOPS = IF today.some THEN str_to_u32(today.value) ELSE @,
                 !.TOTAL_BOOPS = IF total.some THEN str_to_u32(total.value) ELSE @,
                 !.LAST_BOOP_TIMESTAMP = IF ts.some THEN str_to_u64(ts.value) ELSE @]
        reset == g1.LAST_BOOP_TIMESTAMP > 0
                   /\ is_different_day(g1.LAST_BOOP_TIMESTAMP, now)
        g2 == IF reset THEN [g1 EXCEPT !.TODAY_BOOPS = 0] ELSE g1
    IN  [guest |-> [g2 EXCEPT !.LAST_BOOP_TIMESTAMP = now],
         cfg |-> IF reset THEN save_counters(g2, cfg) ELSE cfg,
         reset |-> reset]

\* WasmPlugin::load_config_from_disk on the Boop Counter plugin at the time
\* now
boop_load_config_from_disk(now) ==
    /\ host = "running"
    /\ now >= clock
    /\ (IF op.name = "load_config_from_disk" THEN op.args.call ELSE 0) < MaxLoads
    /\ LET r == plugin_load_config(guest, plugins, now)
       IN  IF "plugin_load_config" \in exports
           THEN /\ guest' = r.guest
                /\ plugins' = r.cfg
                /\ clock' = now
                /\ trace' = << GuestCall("plugin_load_config") >>
                            \o (IF r.reset
                                THEN << [ev |-> "save_counters"] >> ELSE << >>)
           ELSE /\ trace' = << >>
                /\ UNCHANGED <<guest, plugins, clock>>
    /\ ret' = Ok
    /\ op' = [name |-> "load_config_from_disk",
              args |-> [now |-> now,
                        call |-> IF op.name = "load_config_from_disk"
                                 THEN op.args.call + 1 ELSE 1]]
    /\ UNCHANGED <<listeners, enabled, entries, active_addresses, memory, host,
                   saved, running, exports, last_ok, instances, instance,
                   threads, loaded, last_displayed_count, history>>

\* the times get_unix_timestamp returns: two seconds of one day, one of the
\* next and one of the day after
Clocks == { day_seconds + 10, day_seconds + 20, 2 * day_seconds + 5,
            3 * day_seconds + 1 }

\* the settings of the plugin in the configuration file: each of the four
\* keys stored or not
PersistedSettings ==
    LET addrs == { OtherBoopInput }
        todays == { u32_to_str(3) }
        totals == { u32_to_str(12) }
        stamps == { u64_to_str(0), u64_to_str(day_seconds + 10) }
        Opt(key, vals) == { EmptyMap } \cup { MapInsert(EmptyMap, key, v) : v \in vals }
        Join(f, g) == [k \in DOMAIN f \cup DOMAIN g |->
                         IF k \in DOMAIN f THEN f[k] ELSE g[k]]
    IN  { Join(Join(a, b), Join(c, d)) :
            a \in Opt("boop_input_address", addrs),
            b \in Opt("today_boops", todays),
            c \in Opt("total_boops", totals),
            d \in Opt("last_boop_timestamp", stamps) }

\* the Boop Counter plugin as WasmPlugin::new leaves it, with or without
\* plugin_load_config, the configuration file as read by Config::load
BoopInit ==
    /\ listeners = EmptyMap
    /\ enabled = FALSE
    /\ entries = << >>
    /\ active_addresses = EmptyMap
    /\ op = [name |-> "new"]
    /\ trace = << >>
    /\ memory = [a \in 1..MemLen |-> 0]
    /\ plugins \in { EmptyMap } \cup
                   { MapInsert(EmptyMap, plugin_name, st) : st \in PersistedSettings }
    /\ host = "running"
    /\ ret = [kind |-> "none"]
    /\ saved = EmptyMap
    /\ running \in BOOLEAN
    /\ exports \in { AllExports, LifecycleExports }
    /\ last_ok = "none"
    /\ instances = 2
    /\ instance = 2
    /\ threads = Idle
    /\ loaded = << >>
    /\ guest = BoopStatics
    /\ clock = 0
    /\ last_displayed_count = 0
    /\ history = NoHistory

BoopLoadConfigAny == \E now \in Clocks : boop_load_config_from_disk(now)

BoopNext == BoopLoadConfigAny

SpecBoop == BoopInit /\ [][BoopNext]_vars

\* ==================================================================
\* Threads and locks: the receive thread and a thread calling the API
\* ==================================================================
\* The locks are parking_lot's: OscManager.listeners and the console are
\* RwLocks, WasmPlugin.instance and WasmPlugin.store are Mutexes.  A guard
\* lives to the end of its statement (a temporary) or of its block (a local).

Acquire(l, m) == [do |-> "acquire", lock |-> l, mode |-> m]
Release(l) == [do |-> "release", lock |-> l]

\* console.write().log_..(..): the guard is a temporary
ConsoleWrite == << Acquire("console", "w"), Release("console") >>

\* a guest function runs; it calls a host function that logs
GuestSteps(fn) ==
    << [do |-> "enter", fn |-> fn] >> \o ConsoleWrite
        \o << [do |-> "exit", fn |-> fn] >>

\* Mutant of BoopCallbackSteps: the closure calls the guest without locking
\* the instance and the store.
BoopCallbackStepsUnlocked(arg, exported) ==
    IF arg.ty \in {"Bool", "Float"} /\ "plugin_on_osc_bool" \in exported
    THEN GuestSteps("plugin_on_osc_bool")
    ELSE << >>

\* the boop closure: instance.lock(), store.lock(), the guest call; st is
\* dropped before inst
BoopCallbackSteps(arg, exported) ==
    IF arg.ty \in {"Bool", "Float"}
    THEN << Acquire("instance", "x"), Acquire("store", "x") >>
           \o (IF "plugin_on_osc_bool" \in exported
               THEN GuestSteps("plugin_on_osc_bool") ELSE << >>)
           \o << Release("store"), Release("instance") >>
    ELSE << >>

\* the steps of the callback invocations calls, in order: each callback is
\* called, and the boop closure takes its locks inside the call
RECURSIVE CallbackSteps(_, _)
CallbackSteps(calls, exported) ==
    IF calls = << >> THEN << >>
    ELSE << [do |-> "call", call |-> Head(calls)] >>
         \o (IF Head(calls).cb = boop_callback
             THEN BoopCallbackSteps(Head(calls).arg, exported)
             ELSE << >>)
         \o CallbackSteps(Tail(calls), exported)

\* handle_message after listeners.read(): the callbacks of the registry as it
\* is now, then the console
DispatchSteps(msg, registry, exported) ==
    IF msg.addr \in DOMAIN registry
    THEN CallbackSteps(DispatchCalls(msg, registry[msg.addr], << >>), exported)
           \o ConsoleWrite
    ELSE ConsoleWrite

\* Mutant of HandleMessageSteps: the callbacks are looked up under the read
\* guard and called after it is dropped.
HandleMessageStepsGuardDropped(msg) ==
    << Acquire("listeners", "r"), Release("listeners"),
       [do |-> "dispatch", msg |-> msg] >>

\* OscManager::handle_message
HandleMessageSteps(msg) ==
    << Acquire("listeners", "r"), [do |-> "dispatch", msg |-> msg],
       Release("listeners") >>

\* OscManager::register_listener
RegisterListenerSteps(address, callback) ==
    << Acquire("listeners", "w"),
       [do |-> "push", addr |-> address, cb |-> callback] >>
      \o ConsoleWrite \o << Release("listeners") >>

\* OscManager::unregister_all_listeners
UnregisterSteps(address) ==
    << Acquire("listeners", "w"), [do |-> "remove", addr |-> address] >>
      \o ConsoleWrite \o << Release("listeners") >>

\* WasmPlugin::register_osc_boop_listener: self.store.lock() is a temporary
\* of the statement that calls register_listener
RegisterBoopSteps ==
    << Acquire("app_config", "r"), Release("app_config"),
       Acquire("store", "x"), Release("store"),
       Acquire("store", "x") >>
      \o RegisterListenerSteps(boop_addr, boop_callback)
      \o << Release("store") >>

\* the guest function of each method that locks the plugin
LockedMethods ==
    [start |-> "plugin_start", stop |-> "plugin_stop",
     update |-> "plugin_update", send_ui_event |-> "plugin_ui_event",
     load_config_from_disk |-> "plugin_load_config"]

\* WasmPlugin::start, stop, update, send_ui_event, load_config_from_disk:
\* self.instance.lock(), self.store.lock(), the guest call, and the log_info
\* of start and stop; store is dropped before inst
MethodSteps(method, exported) ==
    << Acquire("instance", "x"), Acquire("store", "x") >>
      \o (IF LockedMethods[method] \in exported
          THEN GuestSteps(LockedMethods[method]) ELSE << >>)
      \o (IF method \in {"start", "stop"} THEN ConsoleWrite ELSE << >>)
      \o << Release("store"), Release("instance") >>

\* the guard of lock l in mode m can be given to a thread: a read guard
\* while no thread holds a write guard, any other guard while no thread
\* holds one
Available(l, m) ==
    \A t \in Threads : \A i \in 1..Len(threads[t].holds) :
        threads[t].holds[i].lock = l
        => (m = "r" /\ threads[t].holds[i].mode = "r")

\* holds without the guard of lock l taken last
RECURSIVE DropGuard(_, _)
DropGuard(holds, l) ==
    IF holds = << >> THEN << >>
    ELSE IF holds[Len(holds)].lock = l THEN SubSeq(holds, 1, Len(holds) - 1)
    ELSE Append(DropGuard(SubSeq(holds, 1, Len(holds) - 1), l), holds[Len(holds)])

\* thread t is not inside an operation and begins one with these steps
Begin(t, name, steps) ==
    /\ threads[t].todo = << >>
    /\ threads' = [threads EXCEPT ![t].todo = steps]
    /\ op' = [name |-> name, thread |-> t]
    /\ trace' = << >>
    /\ UNCHANGED <<listeners, enabled, entries, active_addresses, pluginVars,
                   last_ok, instances, instance, loaded, guest, clock,
                   last_displayed_count, history>>

\* the receive thread has decoded a Message
begin_handle_message(msg) ==
    Begin("receive", "handle_message", HandleMessageSteps(msg))

begin_register_listener(address, callback) ==
    /\ NumRegistered < MaxListeners
    /\ Begin("caller", "register_listener",
             RegisterListenerSteps(address, callback))

begin_unregister_all_listeners(address) ==
    Begin("caller", "unregister_all_listeners", UnregisterSteps(address))

begin_register_osc_boop_listener ==
    /\ NumRegistered < MaxListeners
    /\ Begin("caller", "register_osc_boop_listener", RegisterBoopSteps)

begin_method(method) ==
    Begin("caller", method, MethodSteps(method, exports))

\* thread t takes its next step
step(t) ==
    /\ threads[t].todo # << >>
    /\ LET s == Head(threads[t].todo)
           rest == Tail(threads[t].todo)
           me == threads[t]
       IN  CASE s.do = "acquire" ->
                  /\ Available(s.lock, s.mode)
                  /\ threads' = [threads EXCEPT ![t] =
                        [me EXCEPT !.todo = rest,
                                   !.holds = Append(@, [lock |-> s.lock,
                                                        mode |-> s.mode])]]
                  /\ UNCHANGED listeners
             [] s.do = "release" ->
                  /\ threads' = [threads EXCEPT ![t] =
                        [me EXCEPT !.todo = rest,
                                   !.holds = DropGuard(@, s.lock)]]
                  /\ UNCHANGED listeners
             [] s.do = "enter" ->
                  /\ threads' = [threads EXCEPT ![t] =
                        [me EXCEPT !.todo = rest, !.guest = s.fn]]
                  /\ UNCHANGED listeners
             [] s.do = "exit" ->
                  /\ threads' = [threads EXCEPT ![t] =
                        [me EXCEPT !.todo = rest, !.guest = "none"]]
                  /\ UNCHANGED listeners
             [] s.do = "call" ->
                  /\ threads' = [threads EXCEPT ![t].todo = rest]
                  /\ UNCHANGED listeners
             [] s.do = "dispatch" ->
                  /\ threads' = [threads EXCEPT ![t].todo =
                        DispatchSteps(s.msg, listeners, exports) \o rest]
                  /\ UNCHANGED listeners
             [] s.do = "push" ->
                  /\ listeners' =
                       IF s.addr \in DOMAIN listeners
                       THEN [listeners EXCEPT ![s.addr] = Append(@, s.cb)]
                       ELSE MapInsert(listeners, s.addr, <<s.cb>>)
                  /\ threads' = [threads EXCEPT ![t].todo = rest]
             [] s.do = "remove" ->
                  /\ listeners' = MapRemove(listeners, s.addr)
                  /\ threads' = [threads EXCEPT ![t].todo = rest]
    /\ UNCHANGED <<enabled, entries, active_addresses, op, trace, pluginVars,
                   last_ok, instances, instance, loaded, guest, clock,
                   last_displayed_count, history>>

\* a loaded plugin with every entry point, the console switched off
LocksInit ==
    /\ listeners = EmptyMap
    /\ enabled = FALSE
    /\ entries = << >>
    /\ active_addresses = EmptyMap
    /\ op = [name |-> "new"]
    /\ trace = << >>
    /\ memory = [a \in 1..MemLen |-> 0]
    /\ plugins = EmptyMap
    /\ host = "running"
    /\ ret = [kind |-> "none"]
    /\ saved = EmptyMap
    /\ running = FALSE
    /\ exports = AllExports
    /\ last_ok = "none"
    /\ instances = 2
    /\ instance = 2
    /\ threads = Idle
    /\ loaded = << >>
    /\ guest = BoopStatics
    /\ clock = 0
    /\ last_displayed_count = 0
    /\ history = NoHistory

\* the Messages with one argument
OneArgMessages == { m \in Messages : Len(m.args) = 1 }

BeginHandleMessageAny == \E msg \in OneArgMessages : begin_handle_message(msg)
BeginRegisterAny == begin_register_listener("/avatar/parameters/OSCBoop", "cb1")
BeginUnregisterAny ==
    begin_unregister_all_listeners("/avatar/parameters/OSCBoop")
BeginMethodAny == \E method \in DOMAIN LockedMethods : begin_method(method)
StepAny == \E t \in Threads : step(t)

LocksNext ==
    \/ BeginHandleMessageAny
    \/ BeginRegisterAny
    \/ BeginUnregisterAny
    \/ begin_register_osc_boop_listener
    \/ BeginMethodAny
    \/ StepAny

SpecLocks == LocksInit /\ [][LocksNext]_vars

\* ---- one Message with several arguments and callbacks, the registry changed
\* ---- by another thread
\* a plugin with every entry point, no listener or two callbacks registered
\* for the address of the messages, the console switched off
DispatchInit ==
    /\ listeners \in { EmptyMap,
                       MapInsert(EmptyMap, "/avatar/parameters/OSCBoop",
                                 <<"cb1", "cb2">>) }
    /\ enabled = FALSE
    /\ entries = << >>
    /\ active_addresses = EmptyMap
    /\ op = [name |-> "new"]
    /\ trace = << >>
    /\ memory = [a \in 1..MemLen |-> 0]
    /\ plugins = EmptyMap
    /\ host = "running"
    /\ ret = [kind |-> "none"]
    /\ saved = EmptyMap
    /\ running = FALSE
    /\ exports = AllExports
    /\ last_ok = "none"
    /\ instances = 2
    /\ instance = 2
    /\ threads = Idle
    /\ loaded = << >>
    /\ guest = BoopStatics
    /\ clock = 0
    /\ last_displayed_count = 0
    /\ history = NoHistory

\* the Messages to the one address, with up to MaxArgs arguments
MessagesToBoop == { m \in Messages : m.addr = "/avatar/parameters/OSCBoop" }

BeginHandleBoopMessageAny == \E msg \in MessagesToBoop : begin_handle_message(msg)
BeginRegisterCallbackAny ==
    \E callback \in Callbacks \cup {boop_callback} :
        begin_register_listener("/avatar/parameters/OSCBoop", callback)

DispatchNext ==
    \/ BeginHandleBoopMessageAny
    \/ BeginRegisterCallbackAny
    \/ BeginUnregisterAny
    \/ StepAny

SpecDispatch == DispatchInit /\ [][DispatchNext]_vars

\* ---- the two handoff offsets in one guest memory
\* a loaded plugin that exports every entry point, its data segment in
\* memory, no setting stored yet
HandoffInit ==
    /\ listeners = EmptyMap
    /\ enabled = FALSE
    /\ entries = << >>
    /\ active_addresses = EmptyMap
    /\ op = [name |-> "new"]
    /\ trace = << >>
    /\ memory \in { img \o [a \in 1..(MemLen - Len(img)) |-> 0] :
                      img \in DataImages }
    /\ plugins = EmptyMap
    /\ host = "running"
    /\ ret = [kind |-> "none"]
    /\ saved = EmptyMap
    /\ running = FALSE
    /\ exports = AllExports
    /\ last_ok = "none"
    /\ instances = 2
    /\ instance = 2
    /\ threads = Idle
    /\ loaded = << >>
    /\ guest = BoopStatics
    /\ clock = 0
    /\ last_displayed_count = 0
    /\ history = NoHistory

HandoffNext ==
    \/ SaveConfigAny
    \/ LoadConfigAny
    \/ SendUiEventAny

SpecHandoff == HandoffInit /\ [][HandoffNext]_vars

\* ==================================================================
\* The receive loop: OscManager::receive_loop on the receive thread
\* ==================================================================
\* the loop is at socket.recv_from
RecvFrom == [do |-> "recv_from"]

\* The loop is followed until the log holds this many entries.
MaxLogged == 2

\* what recv_from and rosc::decoder::decode_udp give in one iteration: no
\* datagram, another receive error, a datagram that does not decode, a
\* datagram that decodes to a packet
RecvResults ==
    { [kind |-> "WouldBlock"], [kind |-> "IoError"], [kind |-> "Malformed"] }
      \cup { [kind |-> "Packet", packet |-> p] : p \in OneArgMessages }

\* Mutant of decode_error_arm: a datagram that does not decode ends the loop.
decode_error_arm_returns(c) ==
    [console |-> log_error(c, <<"Failed to decode OSC packet: {}">>),
     trace |-> << [ev |-> "log_error"] >>,
     todo |-> << >>]

\* Err(e) of decode_udp: log_error, continue
decode_error_arm(c) ==
    [console |-> log_error(c, <<"Failed to decode OSC packet: {}">>),
     trace |-> << [ev |-> "log_error"] >>,
     todo |-> << RecvFrom >>]

\* one iteration of the loop body on the result r of recv_from, the console
\* being c: the console and the trace after it, and where the thread goes
receive_loop_body(r, c) ==
    CASE r.kind = "Packet" ->
           LET w == handle_packet(r.packet, [console |-> c, trace |-> << >>])
           IN  [console |-> w.console, trace |-> w.trace,
                todo |-> << RecvFrom >>]
      [] r.kind = "Malformed" -> decode_error_arm(c)
      [] r.kind = "WouldBlock" ->
           [console |-> c, trace |-> << [ev |-> "sleep"] >>,
            todo |-> << RecvFrom >>]
      [] r.kind = "IoError" ->
           [console |-> log_error(c, <<"OSC receive error: {}">>),
            trace |-> << [ev |-> "log_error"] >>,
            todo |-> << RecvFrom >>]

receive_loop(r) ==
    /\ threads["receive"].todo = << RecvFrom >>
    /\ Len(entries) < MaxLogged
    /\ LET w == receive_loop_body(r, Console)
       IN  /\ entries' = w.console.entries
           /\ active_addresses' = w.console.active_addresses
           /\ trace' = w.trace
           /\ threads' = [threads EXCEPT !["receive"].todo = w.todo]
    /\ op' = [name |-> "receive_loop", result |-> r]
    /\ UNCHANGED <<listeners, enabled, pluginVars, last_ok, instances, instance,
                   loaded, guest, clock,
                   last_displayed_count, history>>

\* OscManager::new has spawned the receive thread; the registry is one built
\* by register_listener calls
LoopInit ==
    /\ listeners \in Registries
    /\ enabled \in BOOLEAN
    /\ entries = << >>
    /\ active_addresses = EmptyMap
    /\ op = [name |-> "new"]
    /\ trace = << >>
    /\ memory = [a \in 1..MemLen |-> 0]
    /\ plugins = EmptyMap
    /\ host = "running"
    /\ ret = [kind |-> "none"]
    /\ saved = EmptyMap
    /\ running = FALSE
    /\ exports = {}
    /\ last_ok = "none"
    /\ instances = 0
    /\ instance = 0
    /\ threads = [Idle EXCEPT !["receive"].todo = << RecvFrom >>]
    /\ loaded = << >>
    /\ guest = BoopStatics
    /\ clock = 0
    /\ last_displayed_count = 0
    /\ history = NoHistory

ReceiveLoopAny == \E r \in RecvResults : receive_loop(r)

LoopNext == ReceiveLoopAny

SpecLoop == LoopInit /\ [][LoopNext]_vars


\* --------------------------------------------- Boop Counter guest at work
\* str::find: the 0-based offset of the first occurrence of needle in hay at
\* or after the offset from, -1 for None
Find(hay, needle, from) ==
    LET hits == { i \in from..(Len(hay) - Len(needle)) :
                    SubSeq(hay, i + 1, i + Len(needle)) = needle }
    IN  IF hits = {} THEN -1
        ELSE CHOOSE i \in hits : \A j \in hits : i <= j

\* str::contains
Contains(hay, needle) == Find(hay, needle, 0) >= 0

\* the bytes of r#""ButtonClicked""#
QuotedButtonClicked ==
    << 34, 66, 117, 116, 116, 111, 110, 67, 108, 105, 99, 107, 101, 100,
    34 >>

\* the bytes of r#""send_msg""#
QuotedSendMsg ==
    << 34, 115, 101, 110, 100, 95, 109, 115, 103, 34 >>

\* the bytes of r#""reset_today""#
QuotedResetToday ==
    << 34, 114, 101, 115, 101, 116, 95, 116, 111, 100, 97, 121, 34 >>

\* the bytes of "ApplySettings"
ApplySettingsWord ==
    << 65, 112, 112, 108, 121, 83, 101, 116, 116, 105, 110, 103, 115 >>

\* the bytes of r#"["boop_input",""#
BoopInputOpen ==
    << 91, 34, 98, 111, 111, 112, 95, 105, 110, 112, 117, 116, 34, 44, 34
    >>

\* the bytes of r#""]"#
QuoteBracket ==
    << 34, 93 >>

\* the bytes of the button id send_msg
SendMsgId ==
    << 115, 101, 110, 100, 95, 109, 115, 103 >>

\* the bytes of the button id reset_today
ResetTodayId ==
    << 114, 101, 115, 101, 116, 95, 116, 111, 100, 97, 121 >>

\* the bytes of the text input id boop_input
BoopInputId ==
    << 98, 111, 111, 112, 95, 105, 110, 112, 117, 116 >>

\* the bytes of {"ButtonClicked":{"id":"
ButtonClickedHead ==
    << 123, 34, 66, 117, 116, 116, 111, 110, 67, 108, 105, 99, 107, 101,
    100, 34, 58, 123, 34, 105, 100, 34, 58, 34 >>

\* the bytes of "}}
ButtonClickedTail ==
    << 34, 125, 125 >>

\* the bytes of {"ApplySettings":{"values":[["
ApplySettingsHead ==
    << 123, 34, 65, 112, 112, 108, 121, 83, 101, 116, 116, 105, 110, 103,
    115, 34, 58, 123, 34, 118, 97, 108, 117, 101, 115, 34, 58, 91, 91, 34
    >>

\* the bytes of ","
PairMiddle ==
    << 34, 44, 34 >>

\* the bytes of "]]}}
ApplySettingsTail ==
    << 34, 93, 93, 125, 125 >>

\* the bytes of "Today: "
TodayPrefix ==
    << 84, 111, 100, 97, 121, 58, 32 >>

\* the bytes of "\nTotal Boops: "
TotalMiddle ==
    << 10, 84, 111, 116, 97, 108, 32, 66, 111, 111, 112, 115, 58, 32 >>

\* serde_json::to_string(&UiEvent::ButtonClicked { id })
ButtonClickedJson(id) == ButtonClickedHead \o id \o ButtonClickedTail

\* serde_json::to_string(&UiEvent::ApplySettings { values }) with the one
\* pair (id, value) of the plugin's one text input; the values entered need
\* no JSON escape
ApplySettingsJson(id, value) ==
    ApplySettingsHead \o id \o PairMiddle \o value \o ApplySettingsTail

\* how many bytes of an address the guest keeps
addr_capacity == 127

\* the offset plugin_ui_event adds to the start of the match
value_offset == 16

\* plugin_ui_event on the event bytes: the statics and the settings after
\* it; hang: the slice at search_start is out of range, the guest panics and
\* its panic handler loops
plugin_ui_event(g, cfg, event) ==
    LET g1 == IF Contains(event, QuotedButtonClicked)
              THEN IF Contains(event, QuotedSendMsg)
                   THEN [g EXCEPT !.SEND_MSG_FLAG = TRUE]
                   ELSE IF Contains(event, QuotedResetToday)
                        THEN [g EXCEPT !.RESET_TODAY_FLAG = TRUE]
                        ELSE g
              ELSE g
        found == Find(event, BoopInputOpen, 0)
        search_start == found + value_offset
        end == Find(event, QuoteBracket, search_start)
        addr == SubSeq(event, search_start + 1, end)
        len == IF Len(addr) < addr_capacity THEN Len(addr) ELSE addr_capacity
    IN  IF ~Contains(event, ApplySettingsWord) \/ found < 0
        THEN [guest |-> g1, cfg |-> cfg, hang |-> FALSE, events |-> << >>]
        ELSE IF search_start > Len(event)
        THEN [guest |-> g1, cfg |-> cfg, hang |-> TRUE, events |-> << >>]
        ELSE IF end < 0
        THEN [guest |-> g1, cfg |-> cfg, hang |-> FALSE, events |-> << >>]
        ELSE [guest |-> [g1 EXCEPT !.BOOP_INPUT = SubSeq(addr, 1, len)],
              cfg |-> save_config_value(cfg, "boop_input_address", addr),
              hang |-> FALSE,
              events |-> << [ev |-> "save_config", key |-> "boop_input_address",
                             value |-> addr] >>]

\* plugin_on_osc_bool(value)
plugin_on_osc_bool(g, value) ==
    LET is_true == value # 0
    IN  [g EXCEPT
           !.PENDING_BOOP = IF is_true /\ ~g.LAST_BOOP_STATE THEN TRUE ELSE @,
           !.LAST_BOOP_STATE = is_true]

\* plugin_start
plugin_start(g) ==
    [g EXCEPT !.RUNNING = TRUE, !.LAST_BOOP_STATE = FALSE, !.TICK_COUNT = 0,
              !.LAST_CHATBOX_SEND = 0, !.PENDING_BOOP = FALSE]

\* plugin_stop: the statics and the settings after it
plugin_stop(g, cfg) ==
    LET g1 == [g EXCEPT !.RUNNING = FALSE]
    IN  [guest |-> g1, cfg |-> save_counters(g1, cfg)]

\* the text send_chatbox_message builds
chatbox_text(g) ==
    TodayPrefix \o u32_to_str(g.TODAY_BOOPS) \o TotalMiddle
        \o u32_to_str(g.TOTAL_BOOPS)

\* send_chatbox_message: osc_send_chatbox(message, 1)
send_chatbox_message(g) ==
    [ev |-> "osc_send_chatbox", msg |-> chatbox_text(g), typing |-> 1]

SavedCounters == [ev |-> "save_counters"]

\* every this many ticks plugin_update looks at the day
day_check_ticks == 6000

\* ticks between two chatbox messages sent for boops
chatbox_cooldown == 20

\* The steps of plugin_update work on s = [guest, cfg, events].
\* if TICK_COUNT % 6000 == 0 { .. }
day_check_step(s, now) ==
    IF s.guest.TICK_COUNT % day_check_ticks = 0
         /\ s.guest.LAST_BOOP_TIMESTAMP > 0
         /\ is_different_day(s.guest.LAST_BOOP_TIMESTAMP, now)
    THEN LET g == [s.guest EXCEPT !.TODAY_BOOPS = 0,
                                  !.LAST_BOOP_TIMESTAMP = now]
         IN  [guest |-> g, cfg |-> save_counters(g, s.cfg),
              events |-> Append(s.events, SavedCounters)]
    ELSE s

\* Mutant of count_boop_step: the counters are not saved.
count_boop_step_unsaved(s, now) ==
    IF s.guest.PENDING_BOOP
    THEN LET g == [s.guest EXCEPT !.PENDING_BOOP = FALSE,
                                  !.TODAY_BOOPS = @ + 1,
                                  !.TOTAL_BOOPS = @ + 1,
                                  !.LAST_BOOP_TIMESTAMP = now]
             send == g.TICK_COUNT - g.LAST_CHATBOX_SEND >= chatbox_cooldown
         IN  [guest |-> IF send THEN [g EXCEPT !.LAST_CHATBOX_SEND = g.TICK_COUNT]
                        ELSE g,
              cfg |-> s.cfg,
              events |-> s.events
                           \o (IF send THEN << send_chatbox_message(g) >>
                               ELSE << >>)]
    ELSE s

\* if PENDING_BOOP { .. }
count_boop_step(s, now) ==
    IF s.guest.PENDING_BOOP
    THEN LET g == [s.guest EXCEPT !.PENDING_BOOP = FALSE,
                                  !.TODAY_BOOPS = @ + 1,
                                  !.TOTAL_BOOPS = @ + 1,
                                  !.LAST_BOOP_TIMESTAMP = now]
             send == g.TICK_COUNT - g.LAST_CHATBOX_SEND >= chatbox_cooldown
         IN  [guest |-> IF send THEN [g EXCEPT !.LAST_CHATBOX_SEND = g.TICK_COUNT]
                        ELSE g,
              cfg |-> save_counters(g, s.cfg),
              events |-> s.events \o << SavedCounters >>
                           \o (IF send THEN << send_chatbox_message(g) >>
                               ELSE << >>)]
    ELSE s

\* if SEND_MSG_FLAG { .. }
send_msg_step(s) ==
    IF s.guest.SEND_MSG_FLAG
    THEN [s EXCEPT !.guest = [@ EXCEPT !.SEND_MSG_FLAG = FALSE,
                                       !.LAST_CHATBOX_SEND = s.guest.TICK_COUNT],
                   !.events = Append(@, send_chatbox_message(s.guest))]
    ELSE s

\* Mutant of reset_today_step: the subtraction wraps as a u32 does.
reset_today_step_wraps(s) ==
    IF s.guest.RESET_TODAY_FLAG
    THEN IF s.guest.TODAY_BOOPS > 0
         THEN LET g == [s.guest EXCEPT
                          !.RESET_TODAY_FLAG = FALSE,
                          !.TOTAL_BOOPS =
                             IF @ >= s.guest.TODAY_BOOPS
                             THEN @ - s.guest.TODAY_BOOPS
                             ELSE I32Max - (s.guest.TODAY_BOOPS - @) + 1,
                          !.TODAY_BOOPS = 0]
              IN  [guest |-> g, cfg |-> save_counters(g, s.cfg),
                   events |-> Append(s.events, SavedCounters)]
         ELSE [s EXCEPT !.guest = [@ EXCEPT !.RESET_TODAY_FLAG = FALSE]]
    ELSE s

\* if RESET_TODAY_FLAG { .. }
reset_today_step(s) ==
    IF s.guest.RESET_TODAY_FLAG
    THEN IF s.guest.TODAY_BOOPS > 0
         THEN LET g == [s.guest EXCEPT
                          !.RESET_TODAY_FLAG = FALSE,
                          !.TOTAL_BOOPS =
                             IF @ >= s.guest.TODAY_BOOPS
                             THEN @ - s.guest.TODAY_BOOPS ELSE 0,
                          !.TODAY_BOOPS = 0]
              IN  [guest |-> g, cfg |-> save_counters(g, s.cfg),
                   events |-> Append(s.events, SavedCounters)]
         ELSE [s EXCEPT !.guest = [@ EXCEPT !.RESET_TODAY_FLAG = FALSE]]
    ELSE s

\* plugin_update with the statics g, the settings cfg and the time now that
\* get_unix_timestamp returns during the tick
plugin_update(g, cfg, now) ==
    IF ~g.RUNNING THEN [guest |-> g, cfg |-> cfg, events |-> << >>]
    ELSE LET s0 == [guest |-> [g EXCEPT !.TICK_COUNT = @ + 1], cfg |-> cfg,
                    events |-> << >>]
         IN  reset_today_step(
               send_msg_step(count_boop_step(day_check_step(s0, now), now)))

\* ---- the host's calls into the Boop Counter guest
\* ticks and boop transitions followed
MaxTicks == 2
MaxEdges == 2

\* the address register_osc_boop_listener reads from the settings
persisted_boop_addr(cfg) ==
    LET found == get_plugin_setting(cfg, plugin_name, "boop_input_address")
    IN  IF found.some THEN found.value ELSE DEFAULT_BOOP_INPUT

\* listeners after register_listener(address, callback)
Registered(registry, address, callback) ==
    IF address \in DOMAIN registry
    THEN [registry EXCEPT ![address] = Append(@, callback)]
    ELSE MapInsert(registry, address, <<callback>>)

\* load_all's Ok arm for the Boop Counter plugin at the time now:
\* load_config_from_disk, then register_osc_boop_listener
boop_loaded_arm(now) ==
    /\ host = "running"
    /\ op.name = "new"
    /\ now >= clock
    /\ LET r == plugin_load_config(guest, plugins, now)
           addr == persisted_boop_addr(r.cfg)
       IN  /\ guest' = r.guest
           /\ plugins' = r.cfg
           /\ listeners' = Registered(listeners, addr, boop_callback)
           /\ entries' = log_info(log_info(Console, <<"Loaded: {}", plugin_name>>),
                                  <<"Registered OSC listener for: {}", addr>>).entries
           /\ trace' = << GuestCall("plugin_load_config") >>
                       \o (IF r.reset THEN << SavedCounters >> ELSE << >>)
                       \o << [ev |-> "register_listener", addr |-> addr] >>
    /\ clock' = now
    /\ ret' = Ok
    /\ op' = [name |-> "loaded", args |-> [now |-> now]]
    /\ UNCHANGED <<enabled, active_addresses, memory, host, saved, running,
                   exports, last_ok, instances, instance, threads, loaded,
                   last_displayed_count, history>>

\* WasmPlugin::start on the Boop Counter plugin
boop_start ==
    /\ host = "running"
    /\ op.name # "new"
    /\ IF running
       THEN /\ trace' = << >>
            /\ UNCHANGED <<guest, running, entries>>
       ELSE /\ guest' = plugin_start(guest)
            /\ running' = TRUE
            /\ entries' = log_info(Console, <<"Started plugin: {}", plugin_name>>).entries
            /\ trace' = << GuestCall("plugin_start") >>
    /\ ret' = Ok
    /\ op' = [name |-> "start", args |-> [was_running |-> running]]
    /\ history' = [history EXCEPT !.edges = IF running' # running THEN 0 ELSE @]
    /\ UNCHANGED <<listeners, enabled, active_addresses, memory, plugins, host,
                   saved, exports, last_ok, instances, instance, threads,
                   loaded, clock, last_displayed_count>>

\* WasmPlugin::stop on the Boop Counter plugin
boop_stop ==
    /\ host = "running"
    /\ op.name # "new"
    /\ IF ~running
       THEN /\ trace' = << >>
            /\ UNCHANGED <<guest, plugins, running, entries>>
       ELSE /\ LET r == plugin_stop(guest, plugins)
               IN  /\ guest' = r.guest
                   /\ plugins' = r.cfg
            /\ running' = FALSE
            /\ entries' = log_info(Console, <<"Stopped plugin: {}", plugin_name>>).entries
            /\ trace' = << GuestCall("plugin_stop"), SavedCounters >>
    /\ ret' = Ok
    /\ op' = [name |-> "stop", args |-> [was_running |-> running]]
    /\ history' = [history EXCEPT !.edges = IF running' # running THEN 0 ELSE @]
    /\ UNCHANGED <<listeners, enabled, active_addresses, memory, host, saved,
                   exports, last_ok, instances, instance, threads, loaded,
                   clock, last_displayed_count>>

\* WasmPlugin::update on the Boop Counter plugin, at the time now
boop_update(now) ==
    /\ host = "running"
    /\ op.name # "new"
    /\ now >= clock
    /\ history.ticks < MaxTicks
    /\ IF ~running
       THEN /\ trace' = << >>
            /\ UNCHANGED <<guest, plugins>>
       ELSE LET r == plugin_update(guest, plugins, now)
            IN  /\ guest' = r.guest
                /\ plugins' = r.cfg
                /\ trace' = << GuestCall("plugin_update") >> \o r.events
    /\ clock' = now
    /\ ret' = Ok
    /\ op' = [name |-> "update", args |-> [now |-> now]]
    /\ LET counted == running /\ guest.RUNNING /\ guest.PENDING_BOOP
       IN  history' = [history EXCEPT
                         !.edges = 0,
                         !.ticked = history.edges,
                         !.ticks = @ + 1,
                         !.counted_at = IF counted THEN now ELSE @,
                         !.counted_before =
                            IF counted THEN history.counted_at ELSE @]
    /\ UNCHANGED <<listeners, enabled, entries, active_addresses, memory, host,
                   saved, running, exports, last_ok, instances, instance,
                   threads, loaded, last_displayed_count>>

\* the statics after the plugin_on_osc_bool calls of the boop closure's
\* invocations in the trace tr, in order
RECURSIVE AfterBoopCalls(_, _)
AfterBoopCalls(g, tr) ==
    IF tr = << >> THEN g
    ELSE AfterBoopCalls(
           IF CallsGuest(Head(tr), exports)
           THEN plugin_on_osc_bool(g, BoopValue(Head(tr).arg)) ELSE g,
           Tail(tr))

\* receive_loop: a Message with the one argument arg, addressed to address,
\* is handled; the boop closure calls the guest
boop_receive(address, arg) ==
    /\ host = "running"
    /\ op.name # "new"
    /\ LET msg == [kind |-> "Message", addr |-> address, args |-> << arg >>]
           w == handle_message(msg, [console |-> Console, trace |-> << >>])
           called == address \in DOMAIN listeners
           edge == called /\ BoopValue(arg) = 1 /\ ~history.input /\ running
       IN  /\ ~edge \/ history.edges < MaxEdges
           /\ entries' = w.console.entries
           /\ active_addresses' = w.console.active_addresses
           /\ trace' = WithGuestCalls(w.trace, exports)
           /\ guest' = AfterBoopCalls(guest, w.trace)
           /\ history' = [history EXCEPT
                            !.input = IF called THEN BoopValue(arg) = 1 ELSE @,
                            !.edges = IF edge THEN @ + 1 ELSE @]
           /\ op' = [name |-> "receive",
                     args |-> [addr |-> address, arg |-> arg, called |-> called]]
    /\ ret' = [kind |-> "none"]
    /\ UNCHANGED <<listeners, enabled, memory, plugins, host, saved, running,
                   exports, last_ok, instances, instance, threads, loaded,
                   clock, last_displayed_count>>

\* Mutant of boop_send_ui_event: the listener moves to the address saved.
boop_send_ui_event_reregisters(event) ==
    /\ host = "running"
    /\ op.name # "new"
    /\ LET r == plugin_ui_event(guest, plugins, event)
       IN  /\ guest' = r.guest
           /\ plugins' = r.cfg
           /\ host' = IF r.hang THEN "hung" ELSE "running"
           /\ trace' = << GuestCallWith("plugin_ui_event", <<Len(event)>>) >>
                       \o r.events
           /\ listeners' = IF r.events = << >> THEN listeners
                           ELSE Registered(EmptyMap, persisted_boop_addr(r.cfg),
                                           boop_callback)
    /\ ret' = Ok
    /\ op' = [name |-> "send_ui_event", args |-> [event |-> event]]
    /\ UNCHANGED <<enabled, entries, active_addresses, memory, saved,
                   running, exports, last_ok, instances, instance, threads,
                   loaded, clock, last_displayed_count, history>>

\* WasmPlugin::send_ui_event on the Boop Counter plugin: the event, which
\* fits its memory, is handed to plugin_ui_event
boop_send_ui_event(event) ==
    /\ host = "running"
    /\ op.name # "new"
    /\ LET r == plugin_ui_event(guest, plugins, event)
       IN  /\ guest' = r.guest
           /\ plugins' = r.cfg
           /\ host' = IF r.hang THEN "hung" ELSE "running"
           /\ trace' = << GuestCallWith("plugin_ui_event", <<Len(event)>>) >>
                       \o r.events
    /\ ret' = Ok
    /\ op' = [name |-> "send_ui_event", args |-> [event |-> event]]
    /\ UNCHANGED <<listeners, enabled, entries, active_addresses, memory, saved,
                   running, exports, last_ok, instances, instance, threads,
                   loaded, clock, last_displayed_count, history>>

\* the bytes of "/p/New", an address typed into the text input
NewBoopInput ==
    << 47, 112, 47, 78, 101, 119 >>

\* the events the UI of the plugin sends: its two buttons, and Apply with
\* the text input holding the default address or a new one
UiEvents ==
    { ButtonClickedJson(SendMsgId), ButtonClickedJson(ResetTodayId),
      ApplySettingsJson(BoopInputId, DEFAULT_BOOP_INPUT),
      ApplySettingsJson(BoopInputId, NewBoopInput) }

\* the counters in the configuration file: none, or written on an earlier
\* day with a lifetime count below the daily one, as an edited file holds
CounterSettings ==
    LET Counters(today, total) ==
          save_counters([BoopStatics EXCEPT !.TODAY_BOOPS = today,
                                            !.TOTAL_BOOPS = total,
                                            !.LAST_BOOP_TIMESTAMP = day_seconds + 10],
                        EmptyMap)
    IN  { EmptyMap, Counters(2, 1) }

\* the Boop Counter plugin as WasmPlugin::new leaves it, or loaded at the
\* time day_seconds + 20, started and ticked without a boop until two ticks
\* before plugin_update looks at the day
CounterInit ==
    /\ enabled = FALSE
    /\ entries = << >>
    /\ active_addresses = EmptyMap
    /\ trace = << >>
    /\ memory = [a \in 1..MemLen |-> 0]
    /\ host = "running"
    /\ ret = [kind |-> "none"]
    /\ saved = EmptyMap
    /\ exports = AllExports
    /\ last_ok = "none"
    /\ instances = 2
    /\ instance = 2
    /\ threads = Idle
    /\ loaded = << >>
    /\ last_displayed_count = 0
    /\ history = NoHistory
    /\ \E cfg \in CounterSettings :
         \/ /\ plugins = cfg
            /\ guest = BoopStatics
            /\ listeners = EmptyMap
            /\ running = FALSE
            /\ clock = 0
            /\ op = [name |-> "new"]
         \/ LET r == plugin_load_config(BoopStatics, cfg, day_seconds + 20)
            IN  /\ plugins = r.cfg
                /\ guest = [plugin_start(r.guest) EXCEPT
                              !.TICK_COUNT = day_check_ticks - 2]
                /\ listeners = Registered(EmptyMap, persisted_boop_addr(r.cfg),
                                          boop_callback)
                /\ running = TRUE
                /\ clock = day_seconds + 20
                /\ op = [name |-> "update", args |-> [now |-> day_seconds + 20]]

\* the times of the ticks: a second of one day and one of the next
TickClocks == { day_seconds + 20, 2 * day_seconds + 5 }

BoopLoadedAny == \E now \in TickClocks : boop_loaded_arm(now)
BoopUpdateAny == \E now \in TickClocks : boop_update(now)
BoopInputAny ==
    \E arg \in {ArgPool[1], ArgPool[3]} :
        boop_receive(persisted_boop_addr(plugins), arg)
BoopResetTodayAny ==
    \E id \in {ResetTodayId} : boop_send_ui_event(ButtonClickedJson(id))

\* the plugin loaded, started and stopped, ticked, booped, its reset button
\* clicked
CounterNext ==
    \/ BoopLoadedAny
    \/ boop_start
    \/ boop_stop
    \/ BoopUpdateAny
    \/ BoopInputAny
    \/ BoopResetTodayAny

SpecCounter == CounterInit /\ [][CounterNext]_vars

\* the address in the configuration file: none, or one set earlier
AddressSettings ==
    { EmptyMap,
      MapInsert(EmptyMap, plugin_name,
                MapInsert(EmptyMap, "boop_input_address", OtherBoopInput)) }

\* the Boop Counter plugin as WasmPlugin::new leaves it
AddressInit ==
    /\ listeners = EmptyMap
    /\ enabled = FALSE
    /\ entries = << >>
    /\ active_addresses = EmptyMap
    /\ op = [name |-> "new"]
    /\ trace = << >>
    /\ memory = [a \in 1..MemLen |-> 0]
    /\ plugins \in AddressSettings
    /\ host = "running"
    /\ ret = [kind |-> "none"]
    /\ saved = EmptyMap
    /\ running = FALSE
    /\ exports = AllExports
    /\ last_ok = "none"
    /\ instances = 2
    /\ instance = 2
    /\ threads = Idle
    /\ loaded = << >>
    /\ guest = BoopStatics
    /\ clock = 0
    /\ last_displayed_count = 0
    /\ history = NoHistory

\* the addresses messages arrive at: the default, the one set earlier and
\* the one the guest saves for the one typed
BoopAddrs == { DEFAULT_BOOP_INPUT, OtherBoopInput, Tail(NewBoopInput) }

BoopReceiveAny ==
    \E address \in BoopAddrs, arg \in {ArgPool[1]} : boop_receive(address, arg)
BoopUiEventAny == \E event \in UiEvents : boop_send_ui_event(event)

\* the plugin loaded and started, its UI used, messages received
AddressNext ==
    \/ BoopLoadedAny
    \/ boop_start
    \/ BoopReceiveAny
    \/ BoopUiEventAny

SpecAddress == AddressInit /\ [][AddressNext]_vars

\* ==================================================================
\* setup_app: loading, starting and ticking the plugins (main.rs)
\* ==================================================================
\* the plugin's "enabled" setting: on unless "false" is stored
plugin_enabled(cfg, name) ==
    LET found == get_plugin_setting(cfg, name, "enabled")
    IN  IF found.some THEN found.value # "false" ELSE TRUE

\* for plugin in loader.plugins_mut() { .. plugin.start() .. }, from the i-th
\* plugin on; w = [plugins, console, calls]
RECURSIVE start_from(_, _, _)
start_from(i, outcomes, w) ==
    IF i > Len(w.plugins) THEN w
    ELSE LET p == w.plugins[i]
             r == start_result(p.running, p.exported, w.console, outcomes[i])
             c1 == IF r.running /\ ~p.running
                   THEN log_info(w.console, <<"Started plugin: {}", p.name>>)
                   ELSE w.console
         IN  IF plugin_enabled(plugins, p.name)
             THEN start_from(i + 1, outcomes,
                    [plugins |-> [w.plugins EXCEPT ![i].running = r.running],
                     console |-> IF r.ret.kind = "Err"
                                 THEN log_error(c1, <<"Failed to start plugin: {}",
                                                      r.ret.context>>)
                                 ELSE c1,
                     calls |-> w.calls \o << LoadStep("start", i) >> \o r.calls])
             ELSE start_from(i + 1, outcomes,
                    [w EXCEPT !.console =
                       log_info(@, <<"Plugin '{}' is disabled, skipping", p.name>>)])

\* setup_app after load_all returned Ok: the plugins are started
start_plugins(outcomes) ==
    /\ host = "running"
    /\ op.name = "load_all"
    /\ ret = Ok
    /\ LET w == start_from(1, outcomes, [plugins |-> loaded, console |-> Console,
                                         calls |-> << >>])
       IN  /\ loaded' = w.plugins
           /\ entries' = w.console.entries
           /\ trace' = w.calls
    /\ op' = [name |-> "start_plugins", args |-> [outcomes |-> outcomes]]
    /\ UNCHANGED <<listeners, enabled, active_addresses, memory, plugins, host,
                   ret, saved, running, exports, last_ok, instances, instance,
                   threads, guest, clock, last_displayed_count, history>>

\* plugin.update() on the i-th plugin has returned
UpdateReturned(i, r) == [ev |-> "update_returned", plugin |-> i, ret |-> r.kind]

\* Mutant of tick_from: the loop ends at the first update that fails.
RECURSIVE tick_from_ends_at_error(_, _, _)
tick_from_ends_at_error(i, outcomes, w) ==
    IF i > Len(w.plugins) THEN w
    ELSE LET p == w.plugins[i]
             r == update_result(p.running, p.exported, w.console, outcomes[i])
             after == [plugins |-> [w.plugins EXCEPT ![i].running = r.running],
                       console |-> IF r.ret.kind = "Err"
                                   THEN log_error(r.console,
                                          <<"Plugin update error: {}", r.ret.context>>)
                                   ELSE r.console,
                       calls |-> w.calls \o << LoadStep("update", i) >> \o r.calls
                                   \o << UpdateReturned(i, r.ret) >>]
         IN  IF r.ret.kind = "Err" THEN after
             ELSE tick_from_ends_at_error(i + 1, outcomes, after)

\* for plugin in loader.plugins_mut() { if let Err(e) = plugin.update() { .. } },
\* from the i-th plugin on; w = [plugins, console, calls]
RECURSIVE tick_from(_, _, _)
tick_from(i, outcomes, w) ==
    IF i > Len(w.plugins) THEN w
    ELSE LET p == w.plugins[i]
             r == update_result(p.running, p.exported, w.console, outcomes[i])
         IN  tick_from(i + 1, outcomes,
               [plugins |-> [w.plugins EXCEPT ![i].running = r.running],
                console |-> IF r.ret.kind = "Err"
                            THEN log_error(r.console,
                                   <<"Plugin update error: {}", r.ret.context>>)
                            ELSE r.console,
                calls |-> w.calls \o << LoadStep("update", i) >> \o r.calls
                            \o << UpdateReturned(i, r.ret) >>])

\* the closure of glib::timeout_add_local(100 ms) has run once
tick(outcomes) ==
    /\ host = "running"
    /\ op.name \in {"start_plugins", "tick"}
    /\ history.ticks < MaxTicks
    /\ LET w == tick_from(1, outcomes, [plugins |-> loaded, console |-> Console,
                                        calls |-> << >>])
       IN  /\ loaded' = w.plugins
           /\ entries' = w.console.entries
           /\ trace' = w.calls
    /\ ret' = [kind |-> "Continue"]
    /\ op' = [name |-> "tick", args |-> [outcomes |-> outcomes]]
    /\ history' = [history EXCEPT !.ticks = @ + 1]
    /\ UNCHANGED <<listeners, enabled, active_addresses, memory, plugins, host,
                   saved, running, exports, last_ok, instances, instance,
                   threads, guest, clock, last_displayed_count>>

\* the settings file as setup_app finds it: nothing stored, another boop
\* address stored for the Boop Counter plugin, an address stored under the
\* other plugin's name, and the Boop Counter plugin switched off
SetupSettings ==
    { EmptyMap,
      MapInsert(EmptyMap, "Boop Counter",
                MapInsert(EmptyMap, "boop_input_address", "/p/Other")),
      MapInsert(EmptyMap, "Watch",
                MapInsert(EmptyMap, "boop_input_address", "/p/Other")),
      MapInsert(EmptyMap, "Boop Counter",
                MapInsert(EmptyMap, "enabled", "false")) }

\* the plugin files of the directory: modules that load, with and without a
\* config load that traps, and one whose identity is not valid JSON
SetupBinaries ==
    { Binary(n, k) : n \in PluginNames, k \in {"ok", "config_trap", "bad_json"} }

SetupDirectories == UNION { [1..k -> SetupBinaries] : k \in 0..MaxBinaries }

\* setup_app before load_all: no plugin loaded, the console switch as stored
SetupInit ==
    /\ listeners = EmptyMap
    /\ enabled \in BOOLEAN
    /\ entries = << >>
    /\ active_addresses = EmptyMap
    /\ op = [name |-> "none"]
    /\ trace = << >>
    /\ memory = [a \in 1..MemLen |-> 0]
    /\ plugins \in SetupSettings
    /\ host = "running"
    /\ ret = [kind |-> "none"]
    /\ saved = EmptyMap
    /\ running = FALSE
    /\ exports = {}
    /\ last_ok = "none"
    /\ instances = 0
    /\ instance = 0
    /\ threads = Idle
    /\ loaded = << >>
    /\ guest = BoopStatics
    /\ clock = 0
    /\ last_displayed_count = 0
    /\ history = NoHistory

\* what the guests do when called: one outcome for each loaded plugin
Outcomes == [1..Len(loaded) -> {"ok", "trap"}]

SetupLoadAny == \E dir \in SetupDirectories : load_all(dir, TRUE)

StartPluginsAny == \E outcomes \in Outcomes : start_plugins(outcomes)

TickAny == \E outcomes \in Outcomes : tick(outcomes)

SetupNext ==
    \/ SetupLoadAny
    \/ StartPluginsAny
    \/ TickAny

SpecSetup == SetupInit /\ [][SetupNext]_vars

\* ------------------------------------------------- ConsoleLog and display
\* how many entries are pushed, and how many entries are shown, before the
\* log is no longer followed
MaxPushed == 3

\* the four log calls
LogKinds == {"log_info", "log_error", "log_osc_sent", "log_osc_received"}

\* the console after the log call `kind` with the message (or value) n
log_call_result(kind, n) ==
    CASE kind = "log_info" -> log_info(Console, n)
      [] kind = "log_error" -> log_error(Console, n)
      [] kind = "log_osc_sent" -> log_osc_sent(Console, "/sent", n)
      [] kind = "log_osc_received" -> log_osc_received(Console, "/received", n)

\* the entry a log call pushes, if it pushes one
Pushed(kind, n) ==
    IF ~enabled THEN << >>
    ELSE CASE kind = "log_info" -> << [kind |-> "Info", text |-> n] >>
           [] kind = "log_error" -> << [kind |-> "Error", text |-> n] >>
           [] kind = "log_osc_sent" ->
                << [kind |-> "OscSent", address |-> "/sent", value |-> n] >>
           [] kind = "log_osc_received" ->
                << [kind |-> "OscReceived", address |-> "/received", value |-> n] >>

\* ConsoleLog::log_info / log_error / log_osc_sent / log_osc_received; the
\* n-th call logs the message n
log_call(kind) ==
    /\ host = "running"
    /\ Len(history.logged) < MaxPushed
    /\ LET n == Len(history.logged) + 1
           c == log_call_result(kind, n)
       IN  /\ entries' = c.entries
           /\ active_addresses' = c.active_addresses
           /\ history' = [history EXCEPT !.logged = @ \o Pushed(kind, n)]
    /\ op' = [name |-> kind]
    /\ trace' = << >>
    /\ UNCHANGED <<listeners, enabled, pluginVars, last_ok, instances, instance,
                   threads, loaded, guest, clock, last_displayed_count>>

\* get_new_entries on the entries es with last_displayed_count = count:
\* &entries[count..] panics when count > entries.len()
get_new_entries_result(es, count) ==
    IF count > Len(es)
    THEN [panic |-> TRUE, slice |-> << >>, count |-> count]
    ELSE [panic |-> FALSE, slice |-> SubSeq(es, count + 1, Len(es)),
          count |-> Len(es)]

\* ConsoleLog::get_new_entries, as update_log_view calls it
get_new_entries ==
    /\ host = "running"
    /\ Len(history.shown) <= MaxPushed
    /\ LET r == get_new_entries_result(entries, last_displayed_count)
       IN  /\ host' = IF r.panic THEN "panicked" ELSE "running"
           /\ ret' = IF r.panic THEN [kind |-> "unwind"]
                     ELSE [kind |-> "slice", value |-> r.slice]
           /\ last_displayed_count' = r.count
           /\ history' = [history EXCEPT !.shown = @ \o r.slice]
    /\ op' = [name |-> "get_new_entries"]
    /\ trace' = << >>
    /\ UNCHANGED <<listeners, enabled, entries, active_addresses, memory,
                   plugins, saved, running, exports, last_ok, instances,
                   instance, threads, loaded, guest, clock>>

\* ConsoleLog::reset_display_count
reset_display_count ==
    /\ host = "running"
    /\ last_displayed_count' = 0
    /\ op' = [name |-> "reset_display_count"]
    /\ trace' = << >>
    /\ UNCHANGED <<listeners, enabled, entries, active_addresses, pluginVars,
                   last_ok, instances, instance, threads, loaded, guest, clock,
                   history>>

\* ConsoleLog::clear while the application runs
console_clear == host = "running" /\ clear

\* the entries a log holds that has been followed for a while: all shown
FilledLogs ==
    { [i \in 1..n |-> [kind |-> "Info", text |-> 0]] :
        n \in {0, max_entries - 2, max_entries - 1} }

\* ConsoleLog::new with the console enabled, or a log all of whose entries
\* have been shown; the history starts there
ConsoleInit ==
    /\ listeners = EmptyMap
    /\ enabled = TRUE
    /\ entries \in FilledLogs
    /\ active_addresses = EmptyMap
    /\ op = [name |-> "new"]
    /\ trace = << >>
    /\ memory = [a \in 1..MemLen |-> 0]
    /\ plugins = EmptyMap
    /\ host = "running"
    /\ ret = [kind |-> "none"]
    /\ saved = EmptyMap
    /\ running = FALSE
    /\ exports = {}
    /\ last_ok = "none"
    /\ instances = 0
    /\ instance = 0
    /\ threads = Idle
    /\ loaded = << >>
    /\ guest = BoopStatics
    /\ clock = 0
    /\ last_displayed_count = Len(entries)
    /\ history = NoHistory

LogCallAny == \E kind \in LogKinds : log_call(kind)

\* log calls interleaved with get_new_entries
DisplayNext == LogCallAny \/ get_new_entries

SpecDisplay == ConsoleInit /\ [][DisplayNext]_vars

ConsoleNext ==
    \/ LogCallAny
    \/ get_new_entries
    \/ reset_display_count
    \/ console_clear

SpecConsole == ConsoleInit /\ [][ConsoleNext]_vars

Init == OscInit
Next == OscNext
Spec == Init /\ [][Next]_vars
SpecBundle == BundleInit /\ [][BundleNext]_vars

\* Removing listeners from a registry built by earlier register_listener
\* calls, and the Messages received then
RegistryNext ==
    \/ UnregisterAny
    \/ ReceiveMessageAny
    \/ clear

SpecRegistry == BundleInit /\ [][RegistryNext]_vars

\* ==================================================================
\* Properties
\* ==================================================================

\* the callback invocations among the events of the last operation
CallsOf(tr) == SelectSeq(tr, LAMBDA e : e.ev = "callback")

\* number of positions of sequence q that hold x
Occurrences(q, x) == Cardinality({ i \in 1..Len(q) : q[i] = x })

\* the last operation handled a single Message
HandledMessage == op.name = "handle_packet" /\ op.packet.kind = "Message"

\* value text t is the rendering of argument list args
Renders(t, args) ==
    /\ Len(t) = Len(args)
    /\ \A i \in 1..Len(args) : t[i][1] = args[i].ty /\ t[i][2] = args[i].v

\* C1: a Message with K arguments for an address with N >= 1 registered
\* listeners (duplicates counted) causes exactly N*K callback invocations,
\* one per (listener, argument) pair, each with the message's address and
\* one argument; a callback registered only under another address is not
\* invoked.
C1_DispatchCount ==
    (HandledMessage /\ op.packet.addr \in DOMAIN listeners) =>
        LET msg == op.packet
            ls == listeners[msg.addr]
            calls == CallsOf(trace)
        IN  /\ Len(ls) >= 1
            /\ Len(calls) = Len(ls) * Len(msg.args)
            /\ \A x \in 1..Len(calls) : calls[x].addr = msg.addr
            /\ \A c \in Callbacks : \A a \in { ArgPool[i] : i \in DOMAIN ArgPool } :
                 Cardinality({ x \in 1..Len(calls) :
                                 calls[x].cb = c /\ calls[x].arg = a })
                   = Occurrences(ls, c) * Occurrences(msg.args, a)

\* C1 witness: two arguments delivered to a callback registered twice.
C1_Witness ==
    /\ HandledMessage
    /\ op.packet.addr \in DOMAIN listeners
    /\ Len(op.packet.args) = 2
    /\ listeners[op.packet.addr] = <<"cb1", "cb1">>
    /\ Len(CallsOf(trace)) = 4

\* C2: dispatch is argument-major: with listeners l1..lN and arguments
\* a1..aK the invocations are (l1,a1),...,(lN,a1),(l1,a2),...,(lN,aK).
C2_ArgumentMajor ==
    (HandledMessage /\ op.packet.addr \in DOMAIN listeners) =>
        LET msg == op.packet
            ls == listeners[msg.addr]
            n == Len(ls)
            calls == CallsOf(trace)
        IN  /\ Len(calls) = n * Len(msg.args)
            /\ \A j \in 1..Len(msg.args) : \A i \in 1..n :
                 /\ calls[(j - 1) * n + i].cb = ls[i]
                 /\ calls[(j - 1) * n + i].arg = msg.args[j]

\* C2 witness: two different listeners and two different arguments.
C2_Witness ==
    /\ HandledMessage
    /\ op.packet.addr \in DOMAIN listeners
    /\ listeners[op.packet.addr] = <<"cb2", "cb1">>
    /\ Len(op.packet.args) = 2
    /\ op.packet.args[1] # op.packet.args[2]
    /\ Len(CallsOf(trace)) = 4

\* C3: a Message for an address without a registry entry invokes no
\* callback, sets the address's active-addresses value to the message's
\* arguments and adds no log entry, with the console enabled or disabled.
C3_UnlistenedObserved ==
    [][ (/\ op'.name = "handle_packet"
         /\ op'.packet.kind = "Message"
         /\ op'.packet.addr \notin DOMAIN listeners)
        => (/\ CallsOf(trace') = << >>
            /\ op'.packet.addr \in DOMAIN active_addresses'
            /\ Renders(active_addresses'[op'.packet.addr], op'.packet.args)
            /\ \A a \in (DOMAIN active_addresses) \ {op'.packet.addr} :
                 a \in DOMAIN active_addresses'
                 /\ active_addresses'[a] = active_addresses[a]
            /\ entries' = entries) ]_vars

\* C3 witness: an unlistened message replaced an older value while the
\* console was enabled and another address had listeners.
C3_Witness ==
    /\ HandledMessage
    /\ op.packet.addr \notin DOMAIN listeners
    /\ listeners # EmptyMap
    /\ enabled
    /\ Len(op.packet.args) = 2
    /\ Renders(active_addresses[op.packet.addr], op.packet.args)

\* C4: a Message for an address with >= 1 listener is recorded for passive
\* observation: afterwards the address's active-addresses value equals the
\* message's arguments, with the console enabled or disabled.
C4_ListenedObserved ==
    (HandledMessage /\ op.packet.addr \in DOMAIN listeners) =>
        /\ op.packet.addr \in DOMAIN active_addresses
        /\ Renders(active_addresses[op.packet.addr], op.packet.args)

\* C4 witness: a listened message handled while the console was disabled.
C4_Witness ==
    /\ HandledMessage
    /\ op.packet.addr \in DOMAIN listeners
    /\ ~enabled
    /\ CallsOf(trace) # << >>

\* ---- C5: the leaves of a packet tree, by their paths

\* the node of packet p at path q, or a packet of kind "None"
RECURSIVE NodeAt(_, _)
NodeAt(p, q) ==
    IF q = << >> THEN p
    ELSE IF p.kind = "Bundle" /\ Head(q) <= Len(p.content)
         THEN NodeAt(p.content[Head(q)], Tail(q))
         ELSE [kind |-> "None"]

\* the paths (child indices from the root) of the Messages of packet p
RECURSIVE LeafPaths(_)
LeafPaths(p) ==
    IF p.kind = "Message" THEN { << >> }
    ELSE UNION { { <<i>> \o q : q \in LeafPaths(p.content[i]) } :
                   i \in 1..Len(p.content) }

\* lexicographic order of paths: left before right, at every depth
RECURSIVE LexLess(_, _)
LexLess(q, r) ==
    IF r = << >> THEN FALSE
    ELSE IF q = << >> THEN TRUE
    ELSE IF Head(q) # Head(r) THEN Head(q) < Head(r)
    ELSE LexLess(Tail(q), Tail(r))

\* the k-th leaf Message from the left
LeafNo(p, k) ==
    LET q == CHOOSE x \in LeafPaths(p) :
                 Cardinality({ y \in LeafPaths(p) : LexLess(y, x) }) = k - 1
    IN  NodeAt(p, q)

\* positions of the observation records (one ends every handled Message)
RecordPositions(tr) == { x \in 1..Len(tr) : tr[x].ev # "callback" }

\* the position of the k-th observation record, 0 for k = 0
RecordNo(tr, k) ==
    IF k = 0 THEN 0
    ELSE CHOOSE x \in RecordPositions(tr) :
             Cardinality({ y \in RecordPositions(tr) : y < x }) = k - 1

\* C5: handle_packet handles every leaf Message of a packet exactly once, in
\* depth-first left-to-right order, and all callbacks and the observation
\* record of one Message come before the next Message is started.
C5_DepthFirst ==
    (op.name = "handle_packet") =>
        LET p == op.packet
            nLeaves == Cardinality(LeafPaths(p))
        IN  /\ Cardinality(RecordPositions(trace)) = nLeaves
            /\ (trace # << >>) => trace[Len(trace)].ev # "callback"
            /\ \A k \in 1..nLeaves :
                 LET m == LeafNo(p, k)
                     from == RecordNo(trace, k - 1)
                     to == RecordNo(trace, k)
                     n == IF m.addr \in DOMAIN listeners
                          THEN Len(listeners[m.addr]) ELSE 0
                 IN  /\ trace[to].addr = m.addr
                     /\ Renders(trace[to].value, m.args)
                     /\ to - from - 1 = n * Len(m.args)
                     /\ \A x \in (from + 1)..(to - 1) :
                          /\ trace[x].addr = m.addr
                          /\ trace[x].arg \in { m.args[j] : j \in 1..Len(m.args) }

\* C5 witness: a Bundle nested in a Bundle, followed by a Message for
\* another address, one of the two addresses listened.
C5_Witness ==
    /\ op.name = "handle_packet"
    /\ op.packet.kind = "Bundle"
    /\ Len(op.packet.content) = 2
    /\ op.packet.content[1].kind = "Bundle"
    /\ Len(op.packet.content[1].content) = 1
    /\ op.packet.content[1].content[1].kind = "Message"
    /\ op.packet.content[2].kind = "Message"
    /\ op.packet.content[2].addr # op.packet.content[1].content[1].addr
    /\ op.packet.content[2].addr \in DOMAIN listeners
    /\ op.packet.content[1].content[1].addr \notin DOMAIN listeners
    /\ Len(trace) = 3

\* ---------------------------------------------------------------- guest ABI
\* the (pointer, length) pairs the last host function call was given
RefsOf(o) ==
    CASE o.name = "load_config" -> {o.args.key}
      [] o.name = "save_config" -> {o.args.key, o.args.value}
      [] o.name = "osc_send_float" -> {o.args.addr}
      [] o.name = "osc_send_chatbox" -> {o.args.msg}
      [] o.name \in {"log_info", "log_error"} -> {o.args.msg}
      [] OTHER -> {}

\* the pair lies partly or wholly outside a memory of n bytes
OutsideMemory(ref, n) ==
    \/ ref[1] < 0
    \/ ref[2] < 0
    \/ ref[1] > n
    \/ ref[2] > n - ref[1]

\* the length-prefixed string at ptr lies partly or wholly outside data
StringOutsideMemory(data, ptr) ==
    \/ ptr < 0
    \/ ptr + 4 > Len(data)
    \/ data[ptr + 4] > 0
    \/ ptr + 4 + data[ptr + 1] + 256 * data[ptr + 2] + 65536 * data[ptr + 3]
         > Len(data)

\* the call that leads to the next state has a bad guest pointer
BadPointerCall(o, data) ==
    \/ \E ref \in RefsOf(o) : OutsideMemory(ref, Len(data))
    \/ o.name = "read_string_from_memory" /\ StringOutsideMemory(data, o.args.ptr)

\* a zero/null result or an error value
Rejected(r) ==
    \/ r.kind = "i32" /\ r.v = 0
    \/ r.kind = "unit"
    \/ r.kind = "Err"

\* C6: a host function that is given a (pointer, length) pair outside guest
\* memory, and the read of a length-prefixed string that lies outside guest
\* memory, returns a zero/null result or an error value, sends nothing, logs
\* nothing, writes no setting and leaves the host running.
C6_BadPointerRejected ==
    [][ (host = "running" /\ BadPointerCall(op', memory))
        => /\ host' = "running"
           /\ Rejected(ret')
           /\ trace' = << >>
           /\ UNCHANGED <<entries, plugins, memory>> ]_vars

\* a guest has called log_info with a negative pointer
C6_Witness ==
    /\ op.name = "log_info"
    /\ op.args.msg = <<-1, 1>>
    /\ host = "panicked"
    /\ ret.kind = "unwind"

\* the bytes are a string: ASCII, or U+FFFD as EF BF BD
RECURSIVE IsString(_)
IsString(b) ==
    \/ b = << >>
    \/ b[1] < 128 /\ IsString(Tail(b))
    \/ /\ Len(b) >= 3
       /\ SubSeq(b, 1, 3) = <<239, 191, 189>>
       /\ IsString(SubSeq(b, 4, Len(b)))

\* the bytes of guest memory a pair inside memory names
BytesAt(data, ref) == [i \in 1..ref[2] |-> data[ref[1] + i]]

\* the value with its 4-byte prefix lies inside the handoff region, which
\* load_config takes from config_write_pos up to the last byte before the end
\* of memory
FitsBuffer(v) == config_write_pos + 4 + Len(v) < MemLen

\* the last load_config call named key k, a string the guest has saved a
\* string under
LoadedSaved ==
    /\ op.name = "load_config"
    /\ ~OutsideMemory(op.args.key, MemLen)
    /\ BytesAt(memory, op.args.key) \in DOMAIN saved
    /\ IsString(BytesAt(memory, op.args.key))
    /\ IsString(saved[BytesAt(memory, op.args.key)])

Stored(cfg, kb) ==
    /\ plugin_name \in DOMAIN cfg
    /\ from_utf8_lossy(kb) \in DOMAIN cfg[plugin_name]

\* the stored value with its prefix does not end inside memory
ExceedsBuffer(cfg, kb) ==
    config_write_pos + 4 + Len(cfg[plugin_name][from_utf8_lossy(kb)]) > MemLen

\* C8: load_config of a key that is not stored, or whose stored value with
\* its 4-byte prefix exceeds the handoff region, returns 0 and changes no
\* byte of guest memory; and no load_config changes a byte below the handoff
\* region or the size of memory.
C8_LoadFailsCleanly ==
    [][ (host = "running" /\ op'.name = "load_config"
           /\ ~OutsideMemory(op'.args.key, MemLen))
        => LET kb == BytesAt(memory, op'.args.key)
           IN  /\ (~Stored(plugins, kb) \/ ExceedsBuffer(plugins, kb))
                  => /\ ret' = [kind |-> "i32", v |-> 0]
                     /\ memory' = memory
                     /\ host' = "running"
               /\ Len(memory') = Len(memory)
               /\ \A a \in 1..config_write_pos : memory'[a] = memory[a] ]_vars

\* load_config has returned 0 for a stored value that exceeds the region
C8_Witness ==
    /\ op.name = "load_config"
    /\ ~OutsideMemory(op.args.key, MemLen)
    /\ Stored(plugins, BytesAt(memory, op.args.key))
    /\ ExceedsBuffer(plugins, BytesAt(memory, op.args.key))
    /\ ret = [kind |-> "i32", v |-> 0]
    /\ host = "running"

\* ---------------------------------------------------------------- lifecycle
\* C9: start() on a plugin that is not running, whose guest has no
\* plugin_start export or whose plugin_start traps, returns an error and
\* leaves running false; and update() on a plugin that is not running does
\* not invoke the guest's plugin_update.
C9_FailedStartNotRunning ==
    [][ /\ (/\ op'.name = "start"
            /\ ~running
            /\ ("plugin_start" \notin exports \/ op'.args.outcome = "trap"))
           => /\ ret'.kind = "Err"
              /\ ~running'
        /\ (op'.name = "update" /\ ~running)
           => /\ \A i \in 1..Len(trace') : trace'[i].fn # "plugin_update"
              /\ ~running' ]_vars

\* plugin_start has trapped
C9_Witness ==
    /\ op.name = "start"
    /\ op.args.outcome = "trap"
    /\ trace = << [ev |-> "guest_call", fn |-> "plugin_start"] >>
    /\ ret.kind = "Err"
    /\ ~running

\* C10: stop() on a running plugin whose plugin_stop traps returns an error
\* and leaves running true; while running is true, update() invokes the
\* guest's plugin_update and stop() invokes plugin_stop.
C10_FailedStopStillRunning ==
    [][ /\ (/\ op'.name = "stop"
            /\ running
            /\ "plugin_stop" \in exports
            /\ op'.args.outcome = "trap")
           => /\ ret'.kind = "Err"
              /\ running'
        /\ (op'.name = "update" /\ running /\ "plugin_update" \in exports)
           => trace' = << [ev |-> "guest_call", fn |-> "plugin_update"] >>
        /\ (op'.name = "stop" /\ running /\ "plugin_stop" \in exports)
           => trace' = << [ev |-> "guest_call", fn |-> "plugin_stop"] >> ]_vars

\* plugin_stop has trapped on a running plugin
C10_Witness ==
    /\ op.name = "stop"
    /\ op.args.outcome = "trap"
    /\ trace = << [ev |-> "guest_call", fn |-> "plugin_stop"] >>
    /\ ret.kind = "Err"
    /\ running

\* C11: start() on a running plugin and stop() on a plugin that is not
\* running return success, call no guest function, add no log entry and leave
\* running as it was.
C11_RedundantCallsNoOp ==
    [][ /\ (op'.name = "start" /\ running)
           => /\ ret' = [kind |-> "Ok"]
              /\ trace' = << >>
              /\ entries' = entries
              /\ running'
        /\ (op'.name = "stop" /\ ~running)
           => /\ ret' = [kind |-> "Ok"]
              /\ trace' = << >>
              /\ entries' = entries
              /\ ~running' ]_vars

\* stop() has been called on a plugin that was started and stopped before
C11_Witness ==
    /\ op.name = "stop"
    /\ last_ok = "plugin_stop"
    /\ ~running
    /\ trace = << >>
    /\ ret = [kind |-> "Ok"]

\* C13: stop() on a running plugin whose module does not export plugin_stop
\* returns success and leaves the plugin stopped.
C13_MissingStopTolerated ==
    [][ (op'.name = "stop" /\ running /\ "plugin_stop" \notin exports)
        => /\ ret' = [kind |-> "Ok"]
           /\ ~running' ]_vars

\* stop() has failed on a running plugin without plugin_stop
C13_Witness ==
    /\ op.name = "stop"
    /\ "plugin_stop" \notin exports
    /\ running
    /\ ret = [kind |-> "Err", context |-> "Plugin missing plugin_stop function"]

\* C14: update() on a running plugin calls plugin_update exactly once when
\* the module exports it and returns success without a guest call when it
\* does not; on a plugin that is not running it returns success and no guest
\* code runs.
C14_UpdateOncePerCall ==
    [][ op'.name = "update"
        => /\ (running /\ "plugin_update" \in exports)
              => /\ Len(trace') = 1
                 /\ trace'[1] = [ev |-> "guest_call", fn |-> "plugin_update"]
           /\ (running /\ "plugin_update" \notin exports)
              => /\ ret' = [kind |-> "Ok"]
                 /\ trace' = << >>
           /\ ~running
              => /\ ret' = [kind |-> "Ok"]
                 /\ trace' = << >>
                 /\ entries' = entries ]_vars

\* update() has returned success on a running plugin without plugin_update
C14_Witness ==
    /\ op.name = "update"
    /\ running
    /\ "plugin_update" \notin exports
    /\ trace = << >>
    /\ ret = [kind |-> "Ok"]

\* the guest function fn is called in the trace tr
InvokedIn(tr, fn) ==
    \E i \in 1..Len(tr) : tr[i].ev = "guest_call" /\ tr[i].fn = fn

\* C12: plugin_start is called only while the plugin is not running and
\* plugin_stop only while it is running; a plugin_start that returns
\* successfully is the first successful lifecycle call or follows a
\* successful plugin_stop, and a plugin_stop that returns successfully follows
\* a successful plugin_start.
C12_StartStopAlternate ==
    [][ /\ InvokedIn(trace', "plugin_start")
           => /\ ~running
              /\ op'.args.outcome = "ok" => last_ok \in {"none", "plugin_stop"}
        /\ InvokedIn(trace', "plugin_stop")
           => /\ running
              /\ op'.args.outcome = "ok" => last_ok = "plugin_start" ]_vars

\* plugin_stop has returned successfully, after the plugin_start that made
\* the plugin running
C12_Witness ==
    /\ op.name = "stop"
    /\ op.args.outcome = "ok"
    /\ InvokedIn(trace, "plugin_stop")
    /\ last_ok = "plugin_stop"
    /\ ~running

\* C15: running changes only in a start() that returns success, from false to
\* true, and in a stop() that returns success, from true to false; update(),
\* send_ui_event(), load_config_from_disk(), register_osc_boop_listener() and
\* the dispatch of a message to the listener callbacks leave it as it was,
\* whether or not the guest function they call traps.
C15_RunningFrame ==
    [][ /\ running' # running
           => \/ op'.name = "start" /\ ret' = [kind |-> "Ok"] /\ running'
              \/ op'.name = "stop" /\ ret' = [kind |-> "Ok"] /\ ~running'
        /\ op'.name \in {"update", "send_ui_event", "load_config_from_disk",
                         "register_osc_boop_listener", "handle_packet"}
           => running' = running ]_vars

\* plugin_on_osc_bool has trapped in the listener callback of a running
\* plugin
C15_Witness ==
    /\ op.name = "handle_packet"
    /\ op.args.outcome = "trap"
    /\ InvokedIn(trace, "plugin_on_osc_bool")
    /\ running

\* C16: every send_ui_event(e) on a plugin that exports plugin_ui_event
\* writes the bytes of e at the event offset and then calls plugin_ui_event
\* once with (event offset, length of e), whether the plugin is running or not.
C16_UiEventDelivered ==
    [][ (op'.name = "send_ui_event" /\ "plugin_ui_event" \in exports)
        => LET e == op'.args.event
           IN  /\ trace' = << [ev |-> "write", at |-> event_write_pos, bytes |-> e],
                              [ev |-> "guest_call", fn |-> "plugin_ui_event",
                               args |-> <<event_write_pos, Len(e)>>] >>
               /\ \A i \in 1..Len(e) : memory'[event_write_pos + i] = e[i] ]_vars

\* send_ui_event has returned success without a guest call for an event that
\* ends at the end of guest memory
C16_Witness ==
    /\ op.name = "send_ui_event"
    /\ "plugin_ui_event" \in exports
    /\ event_write_pos + Len(op.args.event) = MemLen
    /\ trace = << >>
    /\ ret = [kind |-> "Ok"]

\* C17: loading a module instantiates it once; plugin_info and every other
\* guest function WasmPlugin::new calls run in that instance, which is the
\* one the plugin holds for its later calls.
C17_OneInstancePerModule ==
    (op.name = "new" /\ ret.kind = "Ok")
    => /\ instances = 1
       /\ instance = 1
       /\ \A i \in 1..Len(trace) :
            trace[i].ev = "guest_call" => trace[i].in = instance

\* a module has been loaded: plugin_info ran in the first instance and the
\* plugin holds the second
C17_Witness ==
    /\ op.name = "new"
    /\ ret.kind = "Ok"
    /\ instances = 2
    /\ instance = 2
    /\ trace[2] = [ev |-> "guest_call", fn |-> "plugin_info", in |-> 1]

\* ------------------------------------------------------------- concurrency
\* thread t waits for a guard it cannot be given
Waits(t) ==
    /\ threads[t].todo # << >>
    /\ Head(threads[t].todo).do = "acquire"
    /\ ~Available(Head(threads[t].todo).lock, Head(threads[t].todo).mode)

\* thread t waits for a lock thread u holds
WaitsFor(t, u) ==
    /\ Waits(t)
    /\ \E i \in 1..Len(threads[u].holds) :
         threads[u].holds[i].lock = Head(threads[t].todo).lock

\* C18: there is no state in which two threads each hold a lock the other
\* waits for.
C18_NoDeadlock ==
    ~ \E t \in Threads, u \in Threads :
        t # u /\ WaitsFor(t, u) /\ WaitsFor(u, t)

\* the receive thread holds the registry read guard and waits for the store
\* in the boop closure, the caller holds the store in
\* register_osc_boop_listener and waits for the registry write guard
C18_Witness ==
    /\ WaitsFor("receive", "caller")
    /\ Head(threads["receive"].todo).lock = "store"
    /\ WaitsFor("caller", "receive")
    /\ Head(threads["caller"].todo).lock = "listeners"
    /\ op.name = "register_osc_boop_listener"

\* C19: guest code of the plugin never runs in the receive thread and in the
\* calling thread at once.
C19_GuestCodeExclusive ==
    ~ (threads["receive"].guest # "none" /\ threads["caller"].guest # "none")

\* plugin_on_osc_bool runs in the receive thread while the caller's update()
\* waits for the instance
C19_Witness ==
    /\ threads["receive"].guest = "plugin_on_osc_bool"
    /\ op.name = "update"
    /\ Waits("caller")
    /\ Head(threads["caller"].todo).lock = "instance"

\* ---------------------------------------------------------------- registry
\* C20: unregister_all_listeners(a) leaves no entry for a, so that a Message
\* to a invokes no callback and is handled as not listened; the callback
\* lists of every other address are as before, in content and order, and a
\* registry without an entry for a is unchanged.
C20_UnregisterAll ==
    [][ \A a \in Addrs :
        (op'.name = "unregister_all_listeners" /\ op'.addr = a)
        =>     /\ a \notin DOMAIN listeners'
               /\ DOMAIN listeners' = (DOMAIN listeners) \ {a}
               /\ \A b \in DOMAIN listeners' : listeners'[b] = listeners[b]
               /\ a \notin DOMAIN listeners => listeners' = listeners
               /\ \A args \in ArgLists :
                    LET w == handle_message(
                               [kind |-> "Message", addr |-> a, args |-> args],
                               [console |-> Console, trace |-> << >>])'
                    IN  /\ Len(w.trace) = 1
                        /\ w.trace[1].ev = "update_active_address" ]_vars

\* the listeners of one address have been removed, another address keeps its
\* callbacks
C20_Witness ==
    /\ op.name = "unregister_all_listeners"
    /\ op.addr \notin DOMAIN listeners
    /\ listeners # EmptyMap


\* a datagram that fails: would-block, undecodable, another receive error
Failures == {"WouldBlock", "Malformed", "IoError"}

\* C21: every iteration of the receive loop, whatever recv_from and the
\* decoder gave, leaves the thread at recv_from again; a datagram that does
\* not decode invokes no listener, changes no passive-observation value and
\* makes one log_error call; and a well-formed Message that follows a failed
\* iteration is dispatched as any other: one invocation per registration of
\* its address and per argument, and its value observed.
C21_LoopRecovers ==
    [][ op'.name = "receive_loop" =>
          /\ threads'["receive"].todo = << RecvFrom >>
          /\ op'.result.kind = "Malformed" =>
               /\ CallsOf(trace') = << >>
               /\ active_addresses' = active_addresses
               /\ trace' = << [ev |-> "log_error"] >>
               /\ entries' = IF enabled
                             THEN Append(entries,
                                    [kind |-> "Error",
                                     text |-> <<"Failed to decode OSC packet: {}">>])
                             ELSE entries
          /\ (op.name = "receive_loop" /\ op.result.kind \in Failures
                /\ op'.result.kind = "Packet") =>
               \A m \in OneArgMessages : op'.result.packet = m =>
                 /\ Len(CallsOf(trace')) =
                      IF m.addr \in DOMAIN listeners
                      THEN Len(listeners[m.addr]) * Len(m.args) ELSE 0
                 /\ (m.addr \in DOMAIN listeners /\ enabled) =>
                      /\ m.addr \in DOMAIN active_addresses'
                      /\ active_addresses'[m.addr] = DebugFormat(m.args)
                 /\ m.addr \notin DOMAIN listeners =>
                      /\ m.addr \in DOMAIN active_addresses'
                      /\ active_addresses'[m.addr] = DebugFormat(m.args)
      ]_vars

\* a Message dispatched to a listener right after a datagram that did not
\* decode: the error entry, then the received one
C21_Witness ==
    /\ op.name = "receive_loop"
    /\ op.result.kind = "Packet"
    /\ Len(entries) = 2
    /\ entries[1].kind = "Error"
    /\ entries[1].text = <<"Failed to decode OSC packet: {}">>
    /\ entries[2].kind = "OscReceived"
    /\ Len(CallsOf(trace)) > 0
    /\ threads["receive"].todo = << RecvFrom >>

\* the senders of OscManager and the host functions that call them
Senders == {"send_float", "send_string", "send_chatbox"}
HostSenders == {"osc_send_float", "osc_send_chatbox"}
\* the packets handed to the socket among the events of an operation
SentPackets(tr) == SelectSeq(tr, LAMBDA e : e.ev = "send_to")
\* the 'sent' entries of a log
SentEntries(es) == SelectSeq(es, LAMBDA e : e.kind = "OscSent")
\* the error a host sender logs
SendError(name) ==
    [kind |-> "Error",
     text |-> IF name = "osc_send_float" THEN <<"OSC send failed: {}", "io">>
              ELSE <<"OSC chatbox send failed: {}", "io">>]

\* C22: a send that fails in encoding or on the socket hands no packet over
\* and records no 'sent' entry; send_float, send_string and send_chatbox then
\* return Err and log nothing, osc_send_float and osc_send_chatbox return 0
\* and make one log_error call.  A guest-facing sender returns 1 exactly when
\* a packet was handed to the socket, and a send that does not fail succeeds
\* whatever happened before it, a failed send included.
C22_SendFailureReported ==
    [][ op'.name \in Senders \cup HostSenders =>
          /\ op'.name \in HostSenders =>
               ((ret'.kind = "i32" /\ ret'.v = 1)
                  <=> Len(SentPackets(trace')) = 1)
          /\ (host' = "running" /\ ~op'.args.send_ok) =>
               /\ SentPackets(trace') = << >>
               /\ SentEntries(entries') = SentEntries(entries)
               /\ op'.name \in Senders =>
                    (ret'.kind = "Err" /\ entries' = entries)
               /\ op'.name \in HostSenders =>
                    /\ ret' = I32(0)
                    /\ entries' = IF enabled
                                  THEN Append(entries, SendError(op'.name))
                                  ELSE entries
          /\ (host' = "running" /\ op'.args.send_ok) =>
               /\ Len(SentPackets(trace')) = 1
               /\ op'.name \in Senders => ret'.kind = "Ok"
               /\ op'.name \in HostSenders => ret' = I32(1)
      ]_vars

\* osc_send_float failed: 0 returned, the error logged, nothing sent
C22_Witness ==
    /\ op.name = "osc_send_float"
    /\ ~op.args.send_ok
    /\ host = "running"
    /\ ret = I32(0)
    /\ entries = << SendError("osc_send_float") >>
    /\ trace = << >>

\* the one Message of a chatbox send
ChatboxMessage(text, flag) ==
    [ev |-> "send_to", addr |-> "/chatbox/input",
     args |-> << [ty |-> "String", v |-> text], [ty |-> "Bool", v |-> flag] >>]

C24_ConfigNamespaced ==
    (op.name = "new" /\ ret.kind = "Ok") => DOMAIN plugins \subseteq {plugin_name}

\* the module's plugin_info saved "A" = "B" while the plugin was loaded: the
\* setting is in the namespace "temp", and the plugin's own has no such key
C24_Witness ==
    /\ op.name = "new"
    /\ ret.kind = "Ok"
    /\ [ev |-> "save_config", store |-> temp_name, key |-> <<65>>,
        value |-> <<66>>] \in { trace[i] : i \in 1..Len(trace) }
    /\ get_plugin_setting(plugins, temp_name, <<65>>).some
    /\ ~get_plugin_setting(plugins, plugin_name, <<65>>).some

\* the bytes of data from address at on are a 4-byte little-endian length
\* followed by the bytes of that length
LengthPrefixedAt(data, at, bytes) ==
    /\ at + 4 + Len(bytes) <= Len(data)
    /\ [i \in 1..4 |-> data[at + i]] = to_le_bytes(Len(bytes))
    /\ [i \in 1..Len(bytes) |-> data[at + 4 + i]] = bytes

\* C25: after send_ui_event has written an event into guest memory, the
\* event offset holds the 4-byte little-endian length of the event followed
\* by its bytes.
C25_LengthPrefixed ==
    (op.name = "send_ui_event" /\ trace # << >>)
    => LengthPrefixedAt(memory, event_write_pos, op.args.event)

\* a two-byte event has been written and handed to plugin_ui_event: its first
\* byte is at the event offset itself
C25_Witness ==
    /\ op.name = "send_ui_event"
    /\ op.args.event = Event(2)
    /\ trace = << Written(event_write_pos, Event(2)),
                  GuestCallWith("plugin_ui_event", <<event_write_pos, 2>>) >>
    /\ memory[event_write_pos + 1] = Event(2)[1]
    /\ memory[event_write_pos + 2] = Event(2)[2]

\* the addresses of the two handoff regions: the UI-event region from the
\* event offset up to the config offset, the config-value region from the
\* config offset to the end of memory
EventRegion == event_write_pos .. (config_write_pos - 1)
ConfigRegion == config_write_pos .. (MemLen - 1)

\* C26: send_ui_event changes no byte of the config-value region, whatever
\* the length of the event, and a load_config call changes no byte of the
\* UI-event region.
C26_RegionsDisjoint ==
    [][ /\ op'.name = "send_ui_event" =>
             \A a \in ConfigRegion : memory'[a + 1] = memory[a + 1]
        /\ op'.name = "load_config" =>
             \A a \in EventRegion : memory'[a + 1] = memory[a + 1]
      ]_vars

\* an event longer than the UI-event region has been delivered while a
\* setting is stored: the config offset holds a byte of the event
C26_Witness ==
    /\ op.name = "send_ui_event"
    /\ Len(op.args.event) > config_write_pos - event_write_pos
    /\ trace # << >>
    /\ memory[config_write_pos + 1] =
         op.args.event[config_write_pos - event_write_pos + 1]
    /\ plugin_name \in DOMAIN plugins

\* the numbers of the .wasm files of dir for which WasmPlugin::new gives one
\* of these results, in enumeration order
RECURSIVE FilesWith(_, _, _)
FilesWith(dir, i, kinds) ==
    IF i > Len(dir) THEN << >>
    ELSE (IF dir[i].wasm /\ dir[i].kind \in kinds THEN << i >> ELSE << >>)
         \o FilesWith(dir, i + 1, kinds)

\* C27: load_all on a readable plugins directory returns Ok, whatever files
\* fail to load; the collection then holds one plugin per .wasm file that
\* loaded, in enumeration order, a failed config load included, and none for
\* a file that did not load, and the log holds one "Failed to load" error per
\* .wasm file that did not load.
C27_LoadIsolated ==
    (op.name = "load_all" /\ op.args.readable) =>
       LET dir == op.args.dir
           ok == FilesWith(dir, 1, {"ok", "config_trap"})
           failed == FilesWith(dir, 1, {"no_info", "info_trap", "bad_json", "bad_ptr"})
       IN  /\ ret = Ok
           /\ [i \in 1..Len(loaded) |-> loaded[i].file] = ok
           /\ \A i \in 1..Len(loaded) : loaded[i].name = dir[loaded[i].file].name
           /\ SelectSeq(entries, LAMBDA e : e.kind = "Error"
                                   /\ e.text[1] = "Failed to load {}: {}")
                = [i \in 1..Len(failed) |->
                     [kind |-> "Error",
                      text |-> <<"Failed to load {}: {}", failed[i]>>]]

\* the second file's plugin_info returned a pointer to the last three bytes
\* of its memory: load_all has not returned, after the first file was loaded
C27_Witness ==
    /\ op.name = "load_all"
    /\ op.args.readable
    /\ Len(op.args.dir) = 2
    /\ op.args.dir[1].kind = "ok"
    /\ op.args.dir[2].kind = "bad_ptr"
    /\ host = "panicked"
    /\ ret = [kind |-> "unwind"]
    /\ Len(loaded) = 1

\* the query fn of a module fails: not exported, a trap, or a string that is
\* not valid JSON; q is what the function does
QueryFails(exported, fn, q) ==
    \/ fn \notin exported
    \/ q.outcome = "trap"
    \/ ~q.parses

\* the pointer the function returns is that of a string inside its memory
Readable(q) == ~read_string_from_memory(ModuleImage, q.ptr).panic

\* C28: WasmPlugin::new on a module whose identity query fails returns an
\* error and leaves no plugin behind; on a module whose identity query
\* succeeds and whose UI descriptor query fails it returns the plugin, with
\* no UI descriptor and not running.
C28_QueryFailures ==
    [][ op'.name = "new" =>
          LET x == op'.args.exported
              info == op'.args.info
              ui == op'.args.ui
          IN
            (info.outcome = "trap" \/ Readable(info)) =>
              /\ QueryFails(x, "plugin_info", info) =>
                   /\ ret'.kind = "Err"
                   /\ instance' = 0
                   /\ exports' = {}
                   /\ host' = "running"
              /\ (~QueryFails(x, "plugin_info", info)
                    /\ QueryFails(x, "plugin_ui_config", ui)
                    /\ (ui.outcome = "trap" \/ Readable(ui))) =>
                   /\ ret' = [kind |-> "Ok", ui_config |-> FALSE]
                   /\ instance' # 0
                   /\ exports' = x
                   /\ running' = FALSE
      ]_vars

\* a module without plugin_ui_config has been loaded: no UI descriptor
C28_Witness ==
    /\ op.name = "new"
    /\ "plugin_ui_config" \notin op.args.exported
    /\ "plugin_info" \in op.args.exported
    /\ ret = [kind |-> "Ok", ui_config |-> FALSE]
    /\ instance = 2
    /\ ~running

\* the number of the 86400-second day a time lies in
DayOf(ts) == ts \div 86400

\* the number a text of decimal digits stands for
RECURSIVE DecimalValue(_)
DecimalValue(s) ==
    IF s = << >> THEN 0
    ELSE 10 * DecimalValue(SubSeq(s, 1, Len(s) - 1)) + (s[Len(s)] - 48)

\* the settings hold both counters and a non-zero last-boop timestamp
CountersPersisted(cfg) ==
    /\ plugin_name \in DOMAIN cfg
    /\ {"today_boops", "total_boops", "last_boop_timestamp"}
         \subseteq DOMAIN cfg[plugin_name]
    /\ DecimalValue(cfg[plugin_name]["last_boop_timestamp"]) > 0

\* C29: load_config_from_disk returns Ok and leaves the running flag alone in
\* every state; on a guest without plugin_load_config it changes nothing; and
\* a call that directly follows another one on the same day leaves the
\* settings, the guest's address and both counters as the first call left
\* them, and the guest's timestamp on the same day.
C29_LoadIdempotent ==
    [][ op'.name = "load_config_from_disk" =>
          /\ ret' = Ok
          /\ running' = running
          /\ "plugin_load_config" \notin exports =>
               (guest' = guest /\ plugins' = plugins /\ trace' = << >>)
          /\ (op.name = "load_config_from_disk"
                /\ DayOf(op.args.now) = DayOf(op'.args.now)) =>
               /\ plugins' = plugins
               /\ guest'.BOOP_INPUT = guest.BOOP_INPUT
               /\ guest'.TODAY_BOOPS = guest.TODAY_BOOPS
               /\ guest'.TOTAL_BOOPS = guest.TOTAL_BOOPS
               /\ DayOf(guest'.LAST_BOOP_TIMESTAMP) = DayOf(guest.LAST_BOOP_TIMESTAMP)
      ]_vars

\* the second of two calls in a row, both on a later day than the persisted
\* timestamp: the daily count is 0 in the guest and in the settings
C29_Witness ==
    /\ op.name = "load_config_from_disk"
    /\ op.args.call = 2
    /\ "plugin_load_config" \in exports
    /\ trace = << GuestCall("plugin_load_config"), [ev |-> "save_counters"] >>
    /\ CountersPersisted(plugins)
    /\ guest.TODAY_BOOPS = 0
    /\ guest.TOTAL_BOOPS = 12
    /\ plugins[plugin_name]["today_boops"] = << 48 >>
    /\ running

\* C30: a config load that finds both counters and a non-zero last-boop
\* timestamp persisted leaves the lifetime counter at its persisted value, in
\* the guest and in the settings; if the timestamp's day differs from the
\* day of the current time, the daily counter is 0 afterwards, in the guest
\* and as the persisted today_boops, otherwise the daily counter has its
\* persisted value and the settings are unchanged.
C30_DayReset ==
    [][ (op'.name = "load_config_from_disk"
           /\ "plugin_load_config" \in exports
           /\ CountersPersisted(plugins)) =>
          LET before == plugins[plugin_name]
              after == plugins'[plugin_name]
          IN  /\ guest'.TOTAL_BOOPS = DecimalValue(before["total_boops"])
              /\ DecimalValue(after["total_boops"])
                   = DecimalValue(before["total_boops"])
              /\ IF DayOf(DecimalValue(before["last_boop_timestamp"]))
                      # DayOf(op'.args.now)
                 THEN /\ guest'.TODAY_BOOPS = 0
                      /\ after["today_boops"] = << 48 >>
                 ELSE /\ guest'.TODAY_BOOPS = DecimalValue(before["today_boops"])
                      /\ plugins' = plugins
      ]_vars

\* loaded on the day after the persisted timestamp: the daily count, 3
\* before, is 0 in the guest and in the settings, the lifetime count is 12
C30_Witness ==
    /\ op.name = "load_config_from_disk"
    /\ op.args.call = 1
    /\ op.args.now = 2 * 86400 + 5
    /\ "plugin_load_config" \in exports
    /\ CountersPersisted(plugins)
    /\ guest.TODAY_BOOPS = 0
    /\ guest.TOTAL_BOOPS = 12
    /\ plugins[plugin_name]["today_boops"] = << 48 >>
    /\ plugins[plugin_name]["total_boops"] = << 49, 50 >>
    /\ plugins[plugin_name]["last_boop_timestamp"] = << 56, 54, 52, 49, 48 >>

\* C39: with the console enabled, after every get_new_entries the slices
\* returned so far, put one after the other, are the entries logged so far.
C39_EveryEntryShownOnce ==
    (op.name = "get_new_entries" /\ host = "running")
        => history.shown = history.logged

\* a full log, all shown, one more entry logged: the entry has evicted the
\* oldest one and get_new_entries has returned nothing
C39_Witness ==
    /\ op.name = "get_new_entries"
    /\ host = "running"
    /\ Len(entries) = max_entries
    /\ Len(history.logged) = 2
    /\ Len(history.shown) = 1
    /\ ret.value = << >>

\* C40: the log holds at most max_entries entries and last_displayed_count
\* is at most their number, so get_new_entries does not panic.
C40_BookkeepingInRange ==
    /\ Len(entries) <= max_entries
    /\ last_displayed_count <= Len(entries)
    /\ host = "running"

\* entries shown, then the log cleared: the count is beyond the entries
C40_Witness ==
    /\ op.name = "clear"
    /\ entries = << >>
    /\ last_displayed_count > 0
    /\ Len(history.shown) > 0

\* ---------------------------------------------------------- Boop Counter
\* the tick at the time now finds the day changed
DayResetDue(g, now) ==
    /\ (g.TICK_COUNT + 1) % 6000 = 0
    /\ g.LAST_BOOP_TIMESTAMP > 0
    /\ DayOf(g.LAST_BOOP_TIMESTAMP) # DayOf(now)

\* the running plugin is ticked
Ticked == op'.name = "update" /\ running /\ guest.RUNNING

\* C31: a tick that processes the reset_today request with the daily count
\* d > 0 and the lifetime count t leaves the lifetime count at t - d, or at
\* 0 when d > t, and the daily count at 0; with d = 0 it changes neither
\* counter. (d and t are the counts when the request is processed: after
\* the day check and after a pending boop has been counted.)
C31_ResetSaturates ==
    [][ (Ticked /\ guest.RESET_TODAY_FLAG) =>
          LET boop == IF guest.PENDING_BOOP THEN 1 ELSE 0
              d == (IF DayResetDue(guest, op'.args.now) THEN 0
                    ELSE guest.TODAY_BOOPS) + boop
              t == guest.TOTAL_BOOPS + boop
          IN  /\ ~guest'.RESET_TODAY_FLAG
              /\ guest'.TOTAL_BOOPS >= 0
              /\ IF d > 0
                 THEN /\ guest'.TOTAL_BOOPS = (IF t >= d THEN t - d ELSE 0)
                      /\ guest'.TODAY_BOOPS = 0
                 ELSE /\ guest'.TOTAL_BOOPS = t
                      /\ guest'.TODAY_BOOPS = 0
      ]_vars

\* the reset processed with a daily count of 2 and a lifetime count of 1, as
\* loaded: no boop was counted, the lifetime count is 0 and saved
C31_Witness ==
    /\ op.name = "update"
    /\ trace = << GuestCall("plugin_update"), SavedCounters >>
    /\ history.counted_at = 0
    /\ guest.TICK_COUNT < 3
    /\ guest.TODAY_BOOPS = 0
    /\ guest.TOTAL_BOOPS = 0
    /\ ~guest.RESET_TODAY_FLAG
    /\ plugins[plugin_name]["total_boops"] = << 48 >>

\* C36: a tick that counts a boop on another day than the boop counted
\* before it leaves the daily counter at 1, the boop just counted.
C36_DailyCounterOneDay ==
    [][ (Ticked /\ guest.PENDING_BOOP /\ ~guest.RESET_TODAY_FLAG
           /\ history.counted_at > 0
           /\ DayOf(history.counted_at) # DayOf(op'.args.now))
          => guest'.TODAY_BOOPS = 1
      ]_vars

\* a boop counted on one day, the next on the day after: the daily counter
\* holds both
C36_Witness ==
    /\ op.name = "update"
    /\ history.counted_before > 0
    /\ history.counted_at = op.args.now
    /\ DayOf(history.counted_before) # DayOf(history.counted_at)
    /\ guest.TODAY_BOOPS = 2
    /\ guest.LAST_BOOP_TIMESTAMP = op.args.now

\* C37: a tick of the running plugin adds to the daily and to the lifetime
\* counter the number of false-to-true transitions of the boop input
\* delivered since the tick before (when no day change and no reset request
\* is due in the tick); a tick of the stopped plugin adds nothing.
C37_EveryBoopCounted ==
    [][ /\ (Ticked /\ ~guest.RESET_TODAY_FLAG
              /\ ~DayResetDue(guest, op'.args.now)) =>
             /\ guest'.TODAY_BOOPS = guest.TODAY_BOOPS + history.edges
             /\ guest'.TOTAL_BOOPS = guest.TOTAL_BOOPS + history.edges
        /\ (op'.name = "update" /\ ~running) =>
             /\ guest'.TODAY_BOOPS = guest.TODAY_BOOPS
             /\ guest'.TOTAL_BOOPS = guest.TOTAL_BOOPS
      ]_vars

\* two transitions delivered between two ticks, one boop counted in all
C37_Witness ==
    /\ op.name = "update"
    /\ history.ticked = 2
    /\ history.counted_at = op.args.now
    /\ history.counted_before = 0
    /\ trace[2] = SavedCounters
    /\ plugins[plugin_name]["total_boops"] = << 49 >>
    /\ guest.TOTAL_BOOPS = 1

\* the decimal text of n, without leading zeros
IsDecimalOf(text, n) ==
    /\ text # << >>
    /\ \A i \in 1..Len(text) : text[i] \in 48..57
    /\ Len(text) = 1 \/ text[1] # 48
    /\ DecimalValue(text) = n

\* the settings hold the counters of the statics g
CountersSaved(cfg, g) ==
    /\ plugin_name \in DOMAIN cfg
    /\ {"today_boops", "total_boops"} \subseteq DOMAIN cfg[plugin_name]
    /\ IsDecimalOf(cfg[plugin_name]["today_boops"], g.TODAY_BOOPS)
    /\ IsDecimalOf(cfg[plugin_name]["total_boops"], g.TOTAL_BOOPS)

\* C38: after a config load, a tick or a stop that changed the daily or the
\* lifetime counter, the settings of the plugin hold today_boops and
\* total_boops as the decimal texts of the two counters.
C38_CountersPersisted ==
    [][ (op'.name \in {"loaded", "update", "stop"}
           /\ (guest'.TODAY_BOOPS # guest.TODAY_BOOPS
                 \/ guest'.TOTAL_BOOPS # guest.TOTAL_BOOPS))
          => CountersSaved(plugins', guest')
      ]_vars

\* a second boop counted by a tick: both counters are 2, in the guest and in
\* the settings
C38_Witness ==
    /\ op.name = "update"
    /\ history.counted_at = op.args.now
    /\ history.counted_before > 0
    /\ guest.TODAY_BOOPS = 2
    /\ guest.TOTAL_BOOPS = 2
    /\ CountersSaved(plugins, guest)

\* the address the settings cfg hold for the boop listener
AddressIn(cfg) ==
    IF plugin_name \in DOMAIN cfg /\ "boop_input_address" \in DOMAIN cfg[plugin_name]
    THEN cfg[plugin_name]["boop_input_address"]
    ELSE DEFAULT_BOOP_INPUT

\* the guest was called with a boop input in the last operation
BoopDelivered(tr) ==
    \E i \in 1..Len(tr) : tr[i].ev = "guest_call" /\ tr[i].fn = "plugin_on_osc_bool"

\* C35: the load registers the boop listener for the address persisted then,
\* and no later operation changes the registry; a UI event that changes the
\* persisted boop_input_address sets the guest's copy to the new value and
\* leaves the registry as it is; a message calls the guest exactly when its
\* address is the registered one.
C35_ListenerAddressFixed ==
    [][ /\ op'.name = "loaded" => DOMAIN listeners' = { AddressIn(plugins') }
        /\ op'.name # "loaded" => listeners' = listeners
        /\ (op'.name = "send_ui_event" /\ AddressIn(plugins') # AddressIn(plugins)) =>
             /\ guest'.BOOP_INPUT = AddressIn(plugins')
             /\ listeners' = listeners
        /\ op'.name = "receive" =>
             (BoopDelivered(trace') <=> op'.args.addr \in DOMAIN listeners)
      ]_vars

\* after Apply changed the address, a message to the address now persisted
\* does not reach the guest: the listener is where the load put it
C35_Witness ==
    /\ op.name = "receive"
    /\ op.args.addr = AddressIn(plugins)
    /\ guest.BOOP_INPUT = op.args.addr
    /\ op.args.addr \notin DOMAIN listeners
    /\ ~BoopDelivered(trace)
    /\ DEFAULT_BOOP_INPUT \in DOMAIN listeners

\* the i-th plugin's update calls the guest, and the guest traps
UpdateFails(p, outcome) ==
    p.running /\ "plugin_update" \in p.exported /\ outcome = "trap"

\* how many of the plugins from the i-th on have an update that fails
RECURSIVE NumFailing(_, _, _)
NumFailing(ps, outcomes, i) ==
    IF i > Len(ps) THEN 0
    ELSE (IF UpdateFails(ps[i], outcomes[i]) THEN 1 ELSE 0)
         + NumFailing(ps, outcomes, i + 1)

\* the steps of the host in a trace: everything but the calls into guests
HostSteps(tr) == SelectSeq(tr, LAMBDA e : e.ev # "guest_call")

\* the "Plugin update error" entries of a log
UpdateErrors(es) ==
    SelectSeq(es, LAMBDA e : e.kind = "Error"
                             /\ e.text[1] = "Plugin update error: {}")

\* C32: in each tick update() is called on every loaded plugin exactly once,
\* in load order, each call returning before the next begins (a guest is
\* called only between the call and the return of its own plugin's update);
\* an update that returns an error is logged, the plugins after it are
\* updated in the same tick, no plugin is stopped by it and the timer goes on.
C32_TickUpdatesAll ==
    [][ op'.name = "tick" =>
          LET n == Len(loaded)
              o == op'.args.outcomes
              steps == HostSteps(trace')
          IN  /\ Len(steps) = 2 * n
              /\ \A i \in 1..n :
                   /\ steps[2 * i - 1] = LoadStep("update", i)
                   /\ steps[2 * i] =
                        [ev |-> "update_returned", plugin |-> i,
                         ret |-> IF UpdateFails(loaded[i], o[i])
                                 THEN "Err" ELSE "Ok"]
              /\ \A k \in 1..Len(trace') :
                   trace'[k].ev = "guest_call" =>
                     /\ trace'[k].fn = "plugin_update"
                     /\ k > 1 /\ k < Len(trace')
                     /\ trace'[k - 1].ev = "update"
                     /\ trace'[k + 1].ev = "update_returned"
                     /\ trace'[k + 1].plugin = trace'[k - 1].plugin
              /\ \A i \in 1..n :
                   (loaded[i].running /\ "plugin_update" \in loaded[i].exported)
                     => \E k \in 2..Len(trace') :
                          /\ trace'[k].ev = "guest_call"
                          /\ trace'[k - 1] = LoadStep("update", i)
              /\ enabled => Len(UpdateErrors(entries'))
                              = Len(UpdateErrors(entries)) + NumFailing(loaded, o, 1)
              /\ loaded' = loaded
              /\ ret'.kind = "Continue"
      ]_vars

\* the second tick: two plugins run, the update of the first one failed in
\* both ticks and was logged twice, and the second one was updated after it
C32_Witness ==
    /\ op.name = "tick"
    /\ history.ticks = 2
    /\ Len(loaded) = 2
    /\ loaded[1].running /\ loaded[2].running
    /\ op.args.outcomes = <<"trap", "ok">>
    /\ enabled
    /\ Len(UpdateErrors(entries)) = 2
    /\ Len(trace) = 6
    /\ trace[5] = GuestCall("plugin_update")

\* the address the settings hold for the Boop Counter plugin, or the default
StoredBoopAddress(cfg) ==
    IF "Boop Counter" \in DOMAIN cfg
       /\ "boop_input_address" \in DOMAIN cfg["Boop Counter"]
    THEN cfg["Boop Counter"]["boop_input_address"]
    ELSE "/avatar/parameters/OSCBoop"

\* how many of the plugins are named "Boop Counter"
NumBoop(ps) == Len(SelectSeq(ps, LAMBDA p : p.name = "Boop Counter"))

\* C33: for every plugin load_all constructs, the config load comes first
\* (the guest's plugin_load_config is called inside it), then the listener is
\* registered, only for a plugin named "Boop Counter" and at the address
\* stored as its boop_input_address (the default when none is stored); no
\* plugin is started by load_all, and a plugin is first started by a later
\* step that leaves the registry as load_all made it.
C33_LoadOrdering ==
    [][ /\ op'.name = "load_all" =>
             LET tr == trace'
                 dir == op'.args.dir
                 addr == StoredBoopAddress(plugins)
             IN  /\ \A k \in 1..Len(tr) :
                      /\ tr[k].ev # "start"
                      /\ tr[k].ev = "guest_call" =>
                           /\ tr[k].fn = "plugin_load_config"
                           /\ k > 1
                           /\ tr[k - 1].ev = "load_config_from_disk"
                      /\ tr[k].ev = "register_listener" =>
                           /\ dir[tr[k].plugin].name = "Boop Counter"
                           /\ tr[k].addr = addr
                           /\ \E j \in 1..(k - 1) :
                                /\ tr[j] = LoadStep("load_config_from_disk",
                                                    tr[k].plugin)
                                /\ "plugin_load_config" \in dir[tr[k].plugin].exported
                                     => tr[j + 1] = GuestCall("plugin_load_config")
                 /\ \A i \in 1..Len(loaded') :
                      LET f == loaded'[i].file
                      IN  /\ \E k \in 1..Len(tr) :
                                tr[k] = LoadStep("load_config_from_disk", f)
                          /\ (loaded'[i].name = "Boop Counter")
                               <=> \E k \in 1..Len(tr) :
                                      tr[k] = ListenerRegistered(f, addr)
                          /\ ~loaded'[i].running
                 /\ listeners' =
                      IF NumBoop(loaded') = 0 THEN EmptyMap
                      ELSE MapInsert(EmptyMap, addr,
                                     [c \in 1..NumBoop(loaded') |-> boop_callback])
        /\ \A i \in 1..Len(loaded') :
             (loaded'[i].running /\ (i > Len(loaded) \/ ~loaded[i].running))
               => /\ op'.name = "start_plugins"
                  /\ i <= Len(loaded)
                  /\ listeners' = listeners
                  /\ loaded'[i].name = "Boop Counter" =>
                       /\ StoredBoopAddress(plugins) \in DOMAIN listeners
                       /\ listeners[StoredBoopAddress(plugins)] # << >>
      ]_vars

\* two plugins were loaded and are started: the Boop Counter plugin's
\* listener is registered at the stored address, the other plugin has none
C33_Witness ==
    /\ op.name = "start_plugins"
    /\ Len(loaded) = 2
    /\ loaded[1].name = "Watch" /\ loaded[2].name = "Boop Counter"
    /\ loaded[1].running /\ loaded[2].running
    /\ StoredBoopAddress(plugins) = "/p/Other"
    /\ listeners = MapInsert(EmptyMap, "/p/Other", <<boop_callback>>)
    /\ trace = << LoadStep("start", 1), GuestCall("plugin_start"),
                  LoadStep("start", 2), GuestCall("plugin_start") >>


\* the callback invocations thread t has still to make
PendingCalls(t) ==
    LET steps == SelectSeq(threads[t].todo, LAMBDA s : s.do = "call")
    IN  [k \in 1..Len(steps) |-> steps[k].call]

\* the callbacks registered for an address
CallbacksAt(registry, address) ==
    IF address \in DOMAIN registry THEN registry[address] ELSE << >>

\* C34: when the receive thread dispatches a Message, the invocations it is
\* going to make are those of all the message's arguments against the list the
\* registry holds at that moment; the registry does not change while an
\* invocation of the message is still to be made (a register_listener or
\* unregister_all_listeners of another thread changes it before the first or
\* after the last one); and every callback still to be invoked is in the
\* registry, so that none removed by a completed unregister_all_listeners is
\* invoked.
C34_DispatchAtomic ==
    [][ /\ ( /\ threads["receive"].todo # << >>
             /\ Head(threads["receive"].todo).do = "dispatch"
             /\ threads'["receive"] # threads["receive"] )
          => LET msg == Head(threads["receive"].todo).msg
             IN  PendingCalls("receive")'
                   = DispatchCalls(msg, CallbacksAt(listeners, msg.addr), << >>)
        /\ PendingCalls("receive") # << >> => listeners' = listeners
        /\ \A k \in 1..Len(PendingCalls("receive")') :
             LET c == PendingCalls("receive")'[k]
             IN  \E j \in 1..Len(CallbacksAt(listeners', c.addr)) :
                    listeners'[c.addr][j] = c.cb
      ]_vars

\* a Message of two arguments is being dispatched to two callbacks: three
\* invocations are still to be made while the other thread waits for the
\* write guard of the registry in unregister_all_listeners
C34_Witness ==
    /\ Len(PendingCalls("receive")) = 3
    /\ PendingCalls("receive")[3].cb = "cb2"
    /\ PendingCalls("receive")[3].arg = ArgPool[2]
    /\ op.name = "unregister_all_listeners"
    /\ WaitsFor("caller", "receive")
    /\ Head(threads["caller"].todo).lock = "listeners"

====
